---- MODULE Spec2Model ----
(***************************************************************************)
(* Model of the statistical estimation engine:                             *)
(*   - cross-sectional analysis  (services/crossSectionalService.ts,       *)
(*     services/parserService.ts, utils/math + utils/distribution as       *)
(*     collected in services/exportService.ts)                             *)
(*   - Markov-chain diagnostics  (services/timeSeriesService.ts)           *)
(*                                                                         *)
(* Conventions.                                                            *)
(*   Strings are sequences of one-character strings, so that split, join,  *)
(*   trim and parseFloat are computed and not assumed.                     *)
(*   A JavaScript Map is a sequence of [k, v] entries in insertion order.  *)
(*   A JavaScript object used as a dictionary is a function on its keys.   *)
(*   A probability is an exact rational <<num, den>> in lowest terms with  *)
(*   den > 0; <<0, 0>> is NaN.  IEEE rounding of the sums and quotients    *)
(*   (relative error about 1e-16) is below every tolerance the code tests  *)
(*   (1e-9, 1e-5), so exact arithmetic decides the same branches.          *)
(*   Math.sqrt and Math.log2 are computed in fixed point, scale FPScale.   *)
(***************************************************************************)
EXTENDS Integers, Sequences, FiniteSets, TLC

(***************************************************************************)
(* Bounds of the model                                                     *)
(***************************************************************************)
MaxSamples == 3     \* rows of a cross-sectional dataset
MaxFitSamples == 1  \* rows of the dataset in the model-fit specification
MaxModels == 2      \* theoretical models handed to performFullAnalysis
MaxTaggedSamples == 2  \* rows of a dataset whose type tags are set by hand
MaxSteps == 4       \* time steps (rows) of a time-series panel
MaxProbeSteps == 3  \* time steps of a panel whose TPMs are computed at every order
MaxOrder == 2       \* the orders calculateTPM is called with are 0..MaxOrder
MaxInputRows == 2   \* lines after the header of an input text

(***************************************************************************)
(* Strings                                                                 *)
(***************************************************************************)
Digits == <<"0", "1", "2", "3", "4", "5", "6", "7", "8", "9">>

IsDigit(c) == \E i \in 1..Len(Digits) : Digits[i] = c

DigitValue(c) == (CHOOSE i \in 1..Len(Digits) : Digits[i] = c) - 1

\* the white space of the model's alphabet: blank and line feed
IsSpace(c) == c \in {" ", "\n"}

\* Array.prototype.join / String concatenation of the parts with a separator
RECURSIVE Join(_, _)
Join(parts, sep) ==
    IF Len(parts) = 0 THEN <<>>
    ELSE IF Len(parts) = 1 THEN parts[1]
    ELSE parts[1] \o sep \o Join(Tail(parts), sep)

\* String.prototype.split on a one-character separator
RECURSIVE SplitFrom(_, _, _, _)
SplitFrom(s, c, i, cur) ==
    IF i > Len(s) THEN <<cur>>
    ELSE IF s[i] = c THEN <<cur>> \o SplitFrom(s, c, i + 1, <<>>)
    ELSE SplitFrom(s, c, i + 1, Append(cur, s[i]))

Split(s, c) == SplitFrom(s, c, 1, <<>>)

RECURSIVE TrimStart(_)
TrimStart(s) == IF Len(s) > 0 /\ IsSpace(s[1]) THEN TrimStart(Tail(s)) ELSE s

RECURSIVE TrimEnd(_)
TrimEnd(s) ==
    IF Len(s) > 0 /\ IsSpace(s[Len(s)]) THEN TrimEnd(SubSeq(s, 1, Len(s) - 1)) ELSE s

\* String.prototype.trim
Trim(s) == TrimEnd(TrimStart(s))

\* Array.prototype.indexOf, 0-based, -1 when absent
IndexOf(arr, x) ==
    IF \E i \in 1..Len(arr) : arr[i] = x
    THEN (CHOOSE i \in 1..Len(arr) : arr[i] = x /\ \A j \in 1..(i - 1) : arr[j] # x) - 1
    ELSE -1

\* cells.map(c => c.trim())
TrimAll(cells) == [i \in 1..Len(cells) |-> Trim(cells[i])]

(***************************************************************************)
(* Numbers: exact rationals, NaN                                           *)
(***************************************************************************)
NaN == <<0, 0>>

IsNaN(x) == x[2] = 0

Abs(n) == IF n < 0 THEN -n ELSE n

RECURSIVE GCD(_, _)
GCD(a, b) == IF b = 0 THEN a ELSE GCD(b, a % b)

Rat(n, d) ==
    IF d = 0 THEN NaN
    ELSE LET g == GCD(Abs(n), Abs(d))
             s == IF d < 0 THEN -1 ELSE 1
         IN  <<(s * n) \div g, (s * d) \div g>>

Zero == <<0, 1>>
One == <<1, 1>>

RAdd(x, y) == IF IsNaN(x) \/ IsNaN(y) THEN NaN ELSE Rat(x[1] * y[2] + y[1] * x[2], x[2] * y[2])
RSub(x, y) == IF IsNaN(x) \/ IsNaN(y) THEN NaN ELSE Rat(x[1] * y[2] - y[1] * x[2], x[2] * y[2])
RMul(x, y) == IF IsNaN(x) \/ IsNaN(y) THEN NaN ELSE Rat(x[1] * y[1], x[2] * y[2])
\* x / y; 0/0 is NaN (a non-zero numerator over 0 does not arise in the model)
RDiv(x, y) == IF IsNaN(x) \/ IsNaN(y) THEN NaN ELSE Rat(x[1] * y[2], x[2] * y[1])
\* comparisons with NaN are false, as in IEEE
RLt(x, y) == ~IsNaN(x) /\ ~IsNaN(y) /\ x[1] * y[2] < y[1] * x[2]
RLe(x, y) == ~IsNaN(x) /\ ~IsNaN(y) /\ x[1] * y[2] <= y[1] * x[2]
RAbs(x) == <<Abs(x[1]), x[2]>>

RECURSIVE RSum(_)
RSum(s) == IF Len(s) = 0 THEN Zero ELSE RAdd(RSum(SubSeq(s, 1, Len(s) - 1)), s[Len(s)])

\* the literals 1e-9 and 1e-5, as the integers 1/1e-9 and 1/1e-5
InvEps9 == 1000000000
InvEps5 == 100000

\* x < 1/e and x > 1/e for a positive integer e, without forming e * num
RLtInv(x, e) == ~IsNaN(x) /\ (IF x[1] <= 0 THEN TRUE ELSE e <= (x[2] - 1) \div x[1])
RGtInv(x, e) == ~IsNaN(x) /\ x[1] > 0 /\ e > x[2] \div x[1]

(***************************************************************************)
(* parseFloat: leading blanks, an optional sign, digits, an optional       *)
(* fraction; whatever follows the longest numeric prefix is ignored; NaN   *)
(* when there is no digit.  (Exponents and "Infinity" are outside the      *)
(* alphabet of the model.)                                                 *)
(***************************************************************************)
RECURSIVE DigitRun(_, _)
\* the number of digits of s from position i on
DigitRun(s, i) == IF i <= Len(s) /\ IsDigit(s[i]) THEN 1 + DigitRun(s, i + 1) ELSE 0

RECURSIVE DigitsValue(_, _, _)
\* the value of the n digits of s that start at i
DigitsValue(s, i, n) ==
    IF n = 0 THEN 0 ELSE DigitsValue(s, i, n - 1) * 10 + DigitValue(s[i + n - 1])

RECURSIVE Pow10(_)
Pow10(n) == IF n = 0 THEN 1 ELSE 10 * Pow10(n - 1)

\* the number of fraction digits of s when s[i] is the decimal point
FractionRun(s, i) == IF i <= Len(s) /\ s[i] = "." THEN DigitRun(s, i + 1) ELSE 0

\* the position of the first digit of s: after an optional sign
FirstDigit(s) == IF Len(s) > 0 /\ s[1] \in {"-", "+"} THEN 2 ELSE 1

\* the numeral with nInt integer digits from i0 on and nFrac fraction digits
NumeralValue(s, sign, i0, nInt, nFrac) ==
    IF nInt + nFrac = 0 THEN NaN
    ELSE Rat(sign * (DigitsValue(s, i0, nInt) * Pow10(nFrac)
                     + DigitsValue(s, i0 + nInt + 1, nFrac)),
             Pow10(nFrac))

\* the longest numeral of s whose digits start at i0
NumeralFrom(s, sign, i0) ==
    NumeralValue(s, sign, i0, DigitRun(s, i0), FractionRun(s, i0 + DigitRun(s, i0)))

parseFloat(str) ==
    NumeralFrom(TrimStart(str),
                IF Len(TrimStart(str)) > 0 /\ TrimStart(str)[1] = "-" THEN -1 ELSE 1,
                FirstDigit(TrimStart(str)))

(***************************************************************************)
(* Map<string, number> in insertion order                                  *)
(***************************************************************************)
EmptyMap == <<>>

MapHas(m, k) == \E i \in 1..Len(m) : m[i].k = k

MapIdx(m, k) == CHOOSE i \in 1..Len(m) : m[i].k = k

\* m.get(k) || 0
MapGet0(m, k) ==
    IF MapHas(m, k) /\ ~IsNaN(m[MapIdx(m, k)].v) THEN m[MapIdx(m, k)].v ELSE Zero

\* m.set(k, v): an existing key keeps its position
MapSet(m, k, v) ==
    IF MapHas(m, k) THEN [m EXCEPT ![MapIdx(m, k)].v = v]
    ELSE Append(m, [k |-> k, v |-> v])

\* m.set(k, (m.get(k) || 0) + x)
MapAdd(m, k, x) == MapSet(m, k, RAdd(MapGet0(m, k), x))

MapKeys(m) == [i \in 1..Len(m) |-> m[i].k]

MapValues(m) == [i \in 1..Len(m) |-> m[i].v]

KeySet(m) == {m[i].k : i \in 1..Len(m)}

Comma == <<",">>

(***************************************************************************)
(* utils/distribution: PMF estimator                                       *)
(***************************************************************************)
\* variables.map(v => v.data[i]).join(',')
Outcome(vs, i) == Join([j \in 1..Len(vs) |-> vs[j].data[i]], Comma)

RECURSIVE CountOutcomes(_, _)
CountOutcomes(vs, n) ==
    IF n = 0 THEN EmptyMap ELSE MapAdd(CountOutcomes(vs, n - 1), Outcome(vs, n), One)

\* A faulty variant of getEmpiricalJointPMF: the counts are divided by the number
\* of distinct outcomes, not by the number of samples.
getEmpiricalJointPMFByOutcomes(vs) ==
    LET numSamples == IF Len(vs) = 0 THEN 0 ELSE Len(vs[1].data)
        Normalised(counts) ==
            [i \in 1..Len(counts) |->
                [k |-> counts[i].k, v |-> RDiv(counts[i].v, <<Len(counts), 1>>)]]
    IN  IF numSamples = 0 THEN EmptyMap ELSE Normalised(CountOutcomes(vs, numSamples))

getEmpiricalJointPMF(vs) ==
    LET numSamples == IF Len(vs) = 0 THEN 0 ELSE Len(vs[1].data)
        Normalised(counts) ==
            [i \in 1..Len(counts) |->
                [k |-> counts[i].k, v |-> RDiv(counts[i].v, <<numSamples, 1>>)]]
    IN  IF numSamples = 0 THEN EmptyMap ELSE Normalised(CountOutcomes(vs, numSamples))

RECURSIVE MarginalUpTo(_, _, _, _)
MarginalUpTo(joint, keep, numTotalVars, n) ==
    IF n = 0 THEN EmptyMap
    ELSE LET prev == MarginalUpTo(joint, keep, numTotalVars, n - 1)
             values == Split(joint[n].k, ",")
         IN  IF Len(values) # numTotalVars THEN prev
             ELSE MapAdd(prev, Join([j \in 1..Len(keep) |-> values[keep[j]]], Comma), joint[n].v)

RECURSIVE MarginalLastUpTo(_, _, _, _)
MarginalLastUpTo(joint, keep, numTotalVars, n) ==
    IF n = 0 THEN EmptyMap
    ELSE LET prev == MarginalLastUpTo(joint, keep, numTotalVars, n - 1)
             values == Split(joint[n].k, ",")
         IN  IF Len(values) # numTotalVars THEN prev
             ELSE MapSet(prev, Join([j \in 1..Len(keep) |-> values[keep[j]]], Comma), joint[n].v)

\* A faulty variant of getMarginalPMF: a value keeps the probability of the last
\* joint outcome that has it, the probabilities are not added up.
getMarginalPMFLast(joint, keep, numTotalVars) ==
    MarginalLastUpTo(joint, keep, numTotalVars, Len(joint))

\* keep holds 1-based positions (the code's indices plus one)
getMarginalPMF(joint, keep, numTotalVars) ==
    MarginalUpTo(joint, keep, numTotalVars, Len(joint))

(***************************************************************************)
(* Number(string): the whole trimmed string must be a decimal numeral;     *)
(* the empty string is 0; anything else is NaN                             *)
(***************************************************************************)
\* s is one numeral from end to end: nInt integer digits from i0 on, an optional
\* decimal point, nFrac fraction digits
WholeNumeral(s, i0, nInt, nFrac) ==
    /\ nInt + nFrac # 0
    /\ (i0 - 1) + nInt + (IF i0 + nInt <= Len(s) /\ s[i0 + nInt] = "." THEN 1 ELSE 0) + nFrac
           = Len(s)

\* Number(s) for a trimmed s
NumberOf(s) ==
    IF Len(s) = 0 THEN Zero
    ELSE IF ~WholeNumeral(s, FirstDigit(s), DigitRun(s, FirstDigit(s)),
                          FractionRun(s, FirstDigit(s) + DigitRun(s, FirstDigit(s))))
    THEN NaN
    ELSE parseFloat(s)

ToNumber(str) == NumberOf(Trim(str))

(***************************************************************************)
(* Array.prototype.sort with a comparator (a, b) => key(a) - key(b): a     *)
(* stable insertion sort; a NaN difference counts as 0                     *)
(***************************************************************************)
RECURSIVE InsertByKey(_, _)
InsertByKey(sorted, e) ==
    IF Len(sorted) = 0 THEN <<e>>
    ELSE IF RLt(e.key, sorted[Len(sorted)].key)
         THEN Append(InsertByKey(SubSeq(sorted, 1, Len(sorted) - 1), e), sorted[Len(sorted)])
         ELSE Append(sorted, e)

RECURSIVE SortByKey(_)
SortByKey(s) ==
    IF Len(s) = 0 THEN <<>>
    ELSE InsertByKey(SortByKey(SubSeq(s, 1, Len(s) - 1)), s[Len(s)])

(***************************************************************************)
(* utils/distribution: pmfToDistribution, getSingleVarMetrics              *)
(***************************************************************************)
\* the sort key of a distribution entry under the variable's type
SortKey(value, type, ordinalOrder) ==
    IF type = "Numerical" THEN value
    ELSE IF type = "Ordinal" /\ Len(ordinalOrder) > 0 THEN <<IndexOf(ordinalOrder, value), 1>>
    ELSE Zero  \* localeCompare of a value with itself

RECURSIVE Cumulate(_, _)
\* the first n entries with their running sum of probabilities
Cumulate(dist, n) ==
    IF n = 0 THEN <<>>
    ELSE LET prev == Cumulate(dist, n - 1)
             before == IF n = 1 THEN Zero ELSE prev[n - 1].cumulative
         IN  Append(prev, [value |-> dist[n].value, probability |-> dist[n].probability,
                           cumulative |-> RAdd(before, dist[n].probability)])

\* one entry of the distribution, with its sort key
DistEntry(value, probability, type, ordinalOrder) ==
    [value |-> value, probability |-> probability, key |-> SortKey(value, type, ordinalOrder)]

pmfToDistribution(pmf, type, ordinalOrder) ==
    Cumulate(SortByKey([i \in 1..Len(pmf) |->
                           DistEntry(IF type = "Numerical" THEN ToNumber(pmf[i].k)
                                     ELSE pmf[i].k,
                                     pmf[i].v, type, ordinalOrder)]),
             Len(pmf))

RECURSIVE MeanUpTo(_, _)
MeanUpTo(dist, n) ==
    IF n = 0 THEN Zero
    ELSE RAdd(MeanUpTo(dist, n - 1), RMul(dist[n].value, dist[n].probability))

calculateMean(dist) == MeanUpTo(dist, Len(dist))

RECURSIVE VarianceUpTo(_, _, _)
VarianceUpTo(dist, mean, n) ==
    IF n = 0 THEN Zero
    ELSE LET d == RSub(dist[n].value, mean)
         IN  RAdd(VarianceUpTo(dist, mean, n - 1), RMul(RMul(d, d), dist[n].probability))

calculateVariance(dist, mean) == VarianceUpTo(dist, mean, Len(dist))

\* Math.max over the probabilities
RECURSIVE MaxProbUpTo(_, _)
MaxProbUpTo(dist, n) ==
    IF n = 1 THEN dist[1].probability
    ELSE LET m == MaxProbUpTo(dist, n - 1)
         IN  IF RLt(m, dist[n].probability) THEN dist[n].probability ELSE m

\* Array.prototype.filter: the elements at the positions in keep, in order
SelectAt(s, keep) ==
    LET F[i \in 0..Len(s)] ==
            IF i = 0 THEN <<>> ELSE IF i \in keep THEN Append(F[i - 1], s[i]) ELSE F[i - 1]
    IN  F[Len(s)]

calculateMode(dist) ==
    IF Len(dist) = 0 THEN <<>>
    ELSE LET maxProb == MaxProbUpTo(dist, Len(dist))
             near(i) == RLtInv(RAbs(RSub(dist[i].probability, maxProb)), InvEps9)
             Values(kept) == [i \in 1..Len(kept) |-> kept[i].value]
         IN  Values(SelectAt(dist, {i \in 1..Len(dist) : near(i)}))

Half == <<1, 2>>

\* an absent optional field (undefined)
Undefined == <<>>

calculateMedian(dist, type, ordinalOrder) ==
    IF Len(dist) = 0 THEN Undefined
    ELSE LET keyed == [i \in 1..Len(dist) |->
                          [value |-> dist[i].value, probability |-> dist[i].probability,
                           key |-> IF type = "Numerical"
                                   \/ (type = "Ordinal" /\ Len(ordinalOrder) > 0)
                                   THEN SortKey(dist[i].value, type, ordinalOrder) ELSE Zero]]
             Pick(sortedDist, reached) ==
                 IF reached # {}
                 THEN sortedDist[CHOOSE i \in reached : \A j \in reached : i <= j].value
                 ELSE sortedDist[Len(sortedDist)].value
             Scan(sortedDist) ==
                 Pick(sortedDist,
                      {i \in 1..Len(sortedDist) : RLe(Half, sortedDist[i].cumulative)})
         IN  Scan(Cumulate(SortByKey(keyed), Len(dist)))

\* the metrics of a distribution; mean and variance for numerical values only
MetricsOf(distribution, type, ordinalOrder, numeric) ==
    [pmf |-> distribution,
     mode |-> calculateMode(distribution),
     median |-> calculateMedian(distribution, type, ordinalOrder),
     mean |-> IF numeric THEN calculateMean(distribution) ELSE Undefined,
     variance |-> IF numeric THEN calculateVariance(distribution, calculateMean(distribution))
                  ELSE Undefined]

\* !isNaN(d.value) for every entry of a numerical distribution
AllNumeric(distribution, type) ==
    type = "Numerical" /\ \A i \in 1..Len(distribution) : ~IsNaN(distribution[i].value)

getSingleVarMetrics(pmf, type, ordinalOrder) ==
    MetricsOf(pmfToDistribution(pmf, type, ordinalOrder), type, ordinalOrder,
              AllNumeric(pmfToDistribution(pmf, type, ordinalOrder), type))

(***************************************************************************)
(* utils/distribution: getConditionalDistributions                         *)
(***************************************************************************)
\* one ConditionalResult, from the sorted conditional distribution
ConditionalResult(target, givenVar, givenVal, dist) ==
    [conditionalVariable |-> target.name, givenVariable |-> givenVar.name,
     conditionValue |-> givenVal, distribution |-> dist,
     mean |-> IF target.type = "Numerical" THEN calculateMean(dist) ELSE Undefined,
     variance |-> IF target.type = "Numerical"
                  THEN calculateVariance(dist, calculateMean(dist)) ELSE Undefined]

\* the key of the pair PMF for a target value and a given value.
\* targetFirst: the target is the first variable of the keys of the pair PMF.
JointKey(targetVal, givenVal, targetFirst) ==
    IF targetFirst THEN targetVal \o Comma \o givenVal ELSE givenVal \o Comma \o targetVal

\* the target's distribution given givenVar = givenVal
CondResult(jointPMF, margTarget, target, givenVar, givenVal, givenProb, targetFirst) ==
    ConditionalResult(target, givenVar, givenVal,
        pmfToDistribution(
            [i \in 1..Len(margTarget) |->
                [k |-> margTarget[i].k,
                 v |-> RDiv(MapGet0(jointPMF, JointKey(margTarget[i].k, givenVal, targetFirst)),
                            givenProb)]],
            target.type, target.ordinalOrder))

RECURSIVE CondResults(_, _, _, _, _, _, _)
\* the results pushed for those of the first n entries of margGiven whose
\* probability is not < 1e-9
CondResults(jointPMF, margTarget, margGiven, target, givenVar, targetFirst, n) ==
    IF n = 0 THEN <<>>
    ELSE IF RLtInv(margGiven[n].v, InvEps9)
    THEN CondResults(jointPMF, margTarget, margGiven, target, givenVar, targetFirst, n - 1)
    ELSE Append(CondResults(jointPMF, margTarget, margGiven, target, givenVar, targetFirst,
                            n - 1),
                CondResult(jointPMF, margTarget, target, givenVar,
                           margGiven[n].k, margGiven[n].v, targetFirst))

\* the object { [var1.name]: [...], [var2.name]: [...] }: given2 is pushed under
\* var2.name first, then given1 under var1.name
ConditionalsByGiven(var1, var2, given2, given1) ==
    IF var1.name = var2.name
    THEN [n \in {var1.name} |-> given2 \o given1]
    ELSE [n \in {var1.name, var2.name} |-> IF n = var2.name THEN given2 ELSE given1]

\* a marginal with every probability replaced by 1
Ones(m) == [i \in 1..Len(m) |-> [k |-> m[i].k, v |-> One]]

\* A faulty variant of getConditionalDistributions: the joint probabilities are
\* not divided by the marginal of the conditioning value, and no value is skipped.
getConditionalDistributionsUndivided(jointPMF, marginal1, marginal2, var1, var2) ==
    ConditionalsByGiven(var1, var2,
        CondResults(jointPMF, marginal1, Ones(marginal2), var1, var2, TRUE, Len(marginal2)),
        CondResults(jointPMF, marginal2, Ones(marginal1), var2, var1, FALSE, Len(marginal1)))

\* P(var1 | var2) for every value of var2, then P(var2 | var1) for every value of var1
getConditionalDistributions(jointPMF, marginal1, marginal2, var1, var2) ==
    ConditionalsByGiven(var1, var2,
        CondResults(jointPMF, marginal1, marginal2, var1, var2, TRUE, Len(marginal2)),
        CondResults(jointPMF, marginal2, marginal1, var2, var1, FALSE, Len(marginal1)))

(***************************************************************************)
(* Fixed-point Math.sqrt and Math.log2 (scale FPScale, truncating)         *)
(***************************************************************************)
FPScale == 100 * 100

RECURSIVE ISqrtIn(_, _, _)
\* the largest r in lo..hi with r * r <= n, given lo * lo <= n
ISqrtIn(n, lo, hi) ==
    IF lo = hi THEN lo
    ELSE LET mid == (lo + hi + 1) \div 2
         IN  IF mid * mid <= n THEN ISqrtIn(n, mid, hi) ELSE ISqrtIn(n, lo, mid - 1)

\* floor(sqrt(n)) for 0 <= n < 2^31
ISqrt(n) == ISqrtIn(n, 0, 46340)

\* Math.sqrt of a fixed-point number
FSqrt(x) == ISqrt(x * FPScale)

\* a rational as a fixed-point number
ToFixed(x) == (x[1] * FPScale) \div x[2]

\* Math.sqrt of a rational in [0, 1]: at full precision while the radicand fits
SqrtRat(x) ==
    IF x[1] <= 20 THEN ISqrt((x[1] * FPScale * FPScale) \div x[2])
    ELSE ISqrt(ToFixed(x) * FPScale)

RECURSIVE FloorLog2(_)
FloorLog2(n) == IF n < 2 THEN 0 ELSE 1 + FloorLog2(n \div 2)

RECURSIVE Pow2(_)
Pow2(n) == IF n = 0 THEN 1 ELSE 2 * Pow2(n - 1)

RECURSIVE Log2Frac(_, _)
\* 14 fraction bits, from bit k on, of log2(m / FPScale), for FPScale <= m < 2 * FPScale
Log2Frac(m, k) ==
    IF k > 14 THEN 0
    ELSE LET sq == (m * m) \div FPScale
         IN  IF sq >= 2 * FPScale
             THEN FPScale \div Pow2(k) + Log2Frac(sq \div 2, k + 1)
             ELSE Log2Frac(sq, k + 1)

\* Math.log2 of an integer n >= 1
Log2Int(n) ==
    LET e == FloorLog2(n)
    IN  e * FPScale + Log2Frac((n * FPScale) \div Pow2(e), 1)

\* Math.log2 of a positive rational
Log2Rat(x) == Log2Int(x[1]) - Log2Int(x[2])

(***************************************************************************)
(* utils/math: Hellinger distance, Shannon entropy, generalized JS         *)
(***************************************************************************)
\* the keys of the maps, each once, in first-seen order (new Set([...]))
RECURSIVE Dedup(_)
Dedup(s) ==
    IF Len(s) = 0 THEN <<>>
    ELSE LET front == Dedup(SubSeq(s, 1, Len(s) - 1))
         IN  IF \E i \in 1..Len(front) : front[i] = s[Len(s)] THEN front
             ELSE Append(front, s[Len(s)])

RECURSIVE SumInts(_)
SumInts(s) == IF Len(s) = 0 THEN 0 ELSE SumInts(SubSeq(s, 1, Len(s) - 1)) + s[Len(s)]

\* 1 / Math.sqrt(2)
InvSqrt2 == (FPScale * FPScale) \div ISqrt(2 * FPScale * FPScale)

\* (1 / sqrt 2) * sqrt(sum), for a sum of squares at scale FPScale^2
HellingerOfSum(sumOfSquaredDiffs) == (InvSqrt2 * ISqrt(sumOfSquaredDiffs)) \div FPScale

SqDiff(p1, p2) == (SqrtRat(p1) - SqrtRat(p2)) * (SqrtRat(p1) - SqrtRat(p2))

calculateHellingerDistance(pmf1, pmf2) ==
    LET allKeys == Dedup(MapKeys(pmf1) \o MapKeys(pmf2))
    IN  HellingerOfSum(SumInts([i \in 1..Len(allKeys) |->
                                   SqDiff(MapGet0(pmf1, allKeys[i]), MapGet0(pmf2, allKeys[i]))]))

\* p * log2(p) for a rational p, fixed point
PLog2P(p) == (p[1] * Log2Rat(p)) \div p[2]

\* the entropy of pmf whose probabilities add up to total
EntropyOf(pmf, total) ==
    IF RLtInv(RAbs(total), InvEps9) THEN 0
    ELSE 0 - SumInts([i \in 1..Len(pmf) |->
                         IF RLt(Zero, pmf[i].v) THEN PLog2P(RDiv(pmf[i].v, total)) ELSE 0])

calculateShannonEntropy(pmf) == EntropyOf(pmf, RSum(MapValues(pmf)))

RECURSIVE ConcatAll(_)
ConcatAll(ss) == IF Len(ss) = 0 THEN <<>> ELSE ConcatAll(SubSeq(ss, 1, Len(ss) - 1)) \o ss[Len(ss)]

Max(a, b) == IF a >= b THEN a ELSE b
Min(a, b) == IF a <= b THEN a ELSE b

\* the equal-weight mixture of pmfs over allKeys
MixturePmf(pmfs, allKeys) ==
    [j \in 1..Len(allKeys) |->
        [k |-> allKeys[j],
         v |-> RDiv(RSum([i \in 1..Len(pmfs) |-> MapGet0(pmfs[i], allKeys[j])]),
                    <<Len(pmfs), 1>>)]]

\* in bits, fixed point
calculateGeneralizedJensenShannonDivergence(pmfs) ==
    IF Len(pmfs) < 2 THEN 0
    ELSE Max(0,
             calculateShannonEntropy(
                 MixturePmf(pmfs, Dedup(ConcatAll([i \in 1..Len(pmfs) |-> MapKeys(pmfs[i])]))))
             - (SumInts([i \in 1..Len(pmfs) |-> calculateShannonEntropy(pmfs[i])])
                \div Len(pmfs)))

\* one term of the mutual information
MITerm(jointProb, prob1, prob2) ==
    IF RGtInv(jointProb, InvEps9) /\ RGtInv(prob1, InvEps9) /\ RGtInv(prob2, InvEps9)
    THEN (jointProb[1] * Log2Rat(RDiv(jointProb, RMul(prob1, prob2)))) \div jointProb[2]
    ELSE 0

\* the term of the joint entry with key parts keys; a key with no comma has no
\* second part: marginal2.get(undefined) || 0
MIEntry(jointProb, keys, marginal1, marginal2) ==
    MITerm(jointProb, MapGet0(marginal1, keys[1]),
           IF Len(keys) >= 2 THEN MapGet0(marginal2, keys[2]) ELSE Zero)

\* calculateMutualInformation, in bits, fixed point
calculateMutualInformation(jointPMF, marginal1, marginal2) ==
    SumInts([i \in 1..Len(jointPMF) |->
                MIEntry(jointPMF[i].v, Split(jointPMF[i].k, ","), marginal1, marginal2)])

(***************************************************************************)
(* Pairwise metrics over the raw columns (exportService.ts).  A metric is  *)
(* a rational over FPScale, or NaN.                                        *)
(***************************************************************************)
\* a fixed-point number as a metric
Fixed(v) == Rat(v, FPScale)

\* an array whose elements are computed once
Array(f) == f \o <<>>

\* data.map(Number)
NumData(data) == Array([i \in 1..Len(data) |-> ToNumber(data[i])])

\* numData.reduce((a, b) => a + b, 0) / n
MeanOfNumbers(numData) == RDiv(RSum(numData), <<Len(numData), 1>>)

\* the sum over i of (numData1[i] - mean1) * (numData2[i] - mean2), over n
MeanProduct(numData1, mean1, numData2, mean2) ==
    RDiv(RSum(Array([i \in 1..Len(numData1) |->
                        RMul(RSub(numData1[i], mean1), RSub(numData2[i], mean2))])),
         <<Len(numData1), 1>>)

\* the radicand of stdDev
VarianceOfNumbers(numData) ==
    MeanProduct(numData, MeanOfNumbers(numData), numData, MeanOfNumbers(numData))

\* lines 159-167: stdDev === 0 is false of NaN, and NaN goes through the quotient;
\* stdDev1 * stdDev2 is taken as the root of the product of the radicands
PearsonFrom(variance1, variance2, cov) ==
    IF variance1 = Zero \/ variance2 = Zero THEN Zero
    ELSE IF IsNaN(variance1) \/ IsNaN(variance2) \/ IsNaN(cov) THEN NaN
    ELSE Fixed((ToFixed(cov) * FPScale) \div FSqrt(ToFixed(RMul(variance1, variance2))))

\* lines 153-167 over the converted columns
PearsonOf(numData1, numData2) ==
    PearsonFrom(VarianceOfNumbers(numData1), VarianceOfNumbers(numData2),
                MeanProduct(numData1, MeanOfNumbers(numData1),
                            numData2, MeanOfNumbers(numData2)))

calculatePearsonCorrelation(data1, data2) == PearsonOf(NumData(data1), NumData(data2))

\* typeUtils.ts: data.every(d => d === '' || !isNaN(Number(d)))
detectVariableType(data) ==
    IF \A i \in 1..Len(data) : data[i] = <<>> \/ ~IsNaN(ToNumber(data[i]))
    THEN "Numerical" ELSE "Nominal"

\* dist of calculateDistanceCorrelation
dist(a, b, isNumeric) ==
    IF isNumeric THEN RAbs(RSub(ToNumber(a), ToNumber(b)))
    ELSE IF a = b THEN Zero ELSE One

\* the matrix a (or b) of pairwise distances within a column
DistanceMatrix(data, isNumeric) ==
    Array([i \in 1..Len(data) |->
              Array([j \in 1..Len(data) |-> dist(data[i], data[j], isNumeric)])])

RowMeans(matrix) == Array([i \in 1..Len(matrix) |-> MeanOfNumbers(matrix[i])])

Centered(matrix, rowMeans, totalMean) ==
    Array([i \in 1..Len(matrix) |->
              Array([j \in 1..Len(matrix) |->
                        RAdd(RSub(RSub(matrix[i][j], rowMeans[i]), rowMeans[j]),
                             totalMean)])])

CenteredBy(matrix, rowMeans) == Centered(matrix, rowMeans, MeanOfNumbers(rowMeans))

doubleCenter(matrix) == CenteredBy(matrix, RowMeans(matrix))

\* the sum over i, j of A[i][j] * B[i][j], over n * n
MeanEntryProduct(A, B) ==
    RDiv(RSum(Array([i \in 1..Len(A) |->
                        RSum(Array([j \in 1..Len(A) |-> RMul(A[i][j], B[i][j])]))])),
         <<Len(A) * Len(A), 1>>)

\* lines 239-241
DistanceCorrelationFrom(dCov2, dVar1_2, dVar2_2) ==
    IF ~RGtInv(dVar1_2, InvEps9) \/ ~RGtInv(dVar2_2, InvEps9) THEN Zero
    ELSE IF ~RLt(Zero, dCov2) THEN Zero
    ELSE Fixed(FSqrt((ToFixed(dCov2) * FPScale)
                         \div FSqrt(ToFixed(RMul(dVar1_2, dVar2_2)))))

CenteredDistances(data) ==
    doubleCenter(DistanceMatrix(data, detectVariableType(data) = "Numerical"))

\* lines 226-241 over the centered matrices
DistanceCorrelationOf(A, B) ==
    DistanceCorrelationFrom(MeanEntryProduct(A, B), MeanEntryProduct(A, A),
                            MeanEntryProduct(B, B))

calculateDistanceCorrelation(data1, data2) ==
    IF Len(data1) < 2 THEN Zero
    ELSE DistanceCorrelationOf(CenteredDistances(data1), CenteredDistances(data2))

\* [...new Set(data)]
LevelsOf(data) == Dedup(data)

\* contingencyTable[l1][l2] after the counting loop
Observed(data1, data2, l1, l2) ==
    Cardinality({i \in 1..Len(data1) : data1[i] = l1 /\ data2[i] = l2})

LevelCount(data, level) == Cardinality({i \in 1..Len(data) : data[i] = level})

\* (observed - expected)^2 / expected, when expected > 0
Chi2Term(observed, expected) ==
    IF RLt(Zero, expected)
    THEN RDiv(RMul(RSub(<<observed, 1>>, expected), RSub(<<observed, 1>>, expected)),
              expected)
    ELSE Zero

Chi2(data1, data2, levels1, levels2) ==
    RSum(Array([i \in 1..Len(levels1) |->
                   RSum(Array([j \in 1..Len(levels2) |->
                                  Chi2Term(Observed(data1, data2, levels1[i], levels2[j]),
                                           Rat(LevelCount(data1, levels1[i])
                                                   * LevelCount(data2, levels2[j]),
                                               Len(data1)))]))]))

calculateCramersV(data1, data2) ==
    IF Len(data1) = 0 THEN Zero
    ELSE IF Len(LevelsOf(data1)) < 2 \/ Len(LevelsOf(data2)) < 2 THEN Zero
    ELSE Fixed(SqrtRat(RDiv(Chi2(data1, data2, LevelsOf(data1), LevelsOf(data2)),
                            <<Len(data1)
                                  * Min(Len(LevelsOf(data2)) - 1, Len(LevelsOf(data1)) - 1),
                              1>>)))

(***************************************************************************)
(* String order of Array.prototype.sort() without a comparator: by code    *)
(* unit.  Alphabet lists the characters of the model in code order.        *)
(***************************************************************************)
Alphabet ==
    <<"\n", " ", "+", ",", "-", ".", "0", "1", "2", "3", "4", "5", "6", "7", "8", "9",
      "A", "B", "C", "P", "X", "a", "b", "c", "h", "i", "l", "m", "o", "r", "t", "v",
      "x", "y", "z">>

CharCode(c) == CHOOSE i \in 1..Len(Alphabet) : Alphabet[i] = c

RECURSIVE StrLess(_, _)
StrLess(a, b) ==
    IF Len(b) = 0 THEN FALSE
    ELSE IF Len(a) = 0 THEN TRUE
    ELSE IF a[1] = b[1] THEN StrLess(Tail(a), Tail(b))
    ELSE CharCode(a[1]) < CharCode(b[1])

\* [a, b].sort()
SortPair(a, b) == IF StrLess(b, a) THEN <<b, a>> ELSE <<a, b>>

(***************************************************************************)
(* services/parserService.ts: parseTheoreticalModel                        *)
(* The result is [error |-> message or Undefined, pmf |-> Map]; the code   *)
(* returns the message (a string) or the Map.                              *)
(***************************************************************************)
PROBABILITY == <<"P", "r", "o", "b", "a", "b", "i", "l", "i", "t", "y">>

\* A faulty variant of ParsedRow: a later row of an outcome overwrites the earlier.
ParsedRowOverwriting(prev, n, values, prob, probIndex) ==
    IF IsNaN(prob) \/ RLt(prob, Zero)
    THEN [prev EXCEPT !.error = <<"Invalid probability in row", n>>]
    ELSE [error |-> Undefined,
          pmf |-> MapSet(prev.pmf, Join(SubSeq(values, 1, probIndex), Comma), prob),
          totalProb |-> RAdd(prev.totalProb, prob)]

\* a row with a probability: an invalid one is an error, a valid one is added
ParsedRow(prev, n, values, prob, probIndex) ==
    IF IsNaN(prob) \/ RLt(prob, Zero)
    THEN [prev EXCEPT !.error = <<"Invalid probability in row", n>>]
    ELSE [error |-> Undefined,
          pmf |-> MapAdd(prev.pmf, Join(SubSeq(values, 1, probIndex), Comma), prob),
          totalProb |-> RAdd(prev.totalProb, prob)]

\* line n (the code's lines[n - 1]) after the rows before it; a row of another
\* length is skipped, and nothing is read after an error
ParseRow(prev, n, values, header, probIndex) ==
    IF prev.error # Undefined THEN prev
    ELSE IF Len(values) # Len(header) THEN prev
    ELSE ParsedRow(prev, n, values, parseFloat(values[probIndex + 1]), probIndex)

RECURSIVE ParseRowsUpTo(_, _, _, _)
ParseRowsUpTo(lines, header, probIndex, n) ==
    IF n <= 1 THEN [error |-> Undefined, pmf |-> EmptyMap, totalProb |-> Zero]
    ELSE ParseRow(ParseRowsUpTo(lines, header, probIndex, n - 1), n, Split(lines[n], ","),
                  header, probIndex)

\* the rows lines[2..n] (the code's lines[1..n-1]) folded in order; an invalid
\* probability ends the loop with an error
ParseRows(lines, header, probIndex) == ParseRowsUpTo(lines, header, probIndex, Len(lines))

\* A faulty variant of SameOrder: the same names in any order are accepted.
SameNames(modelVarNames, varNamesInOrder) ==
    /\ Len(modelVarNames) = Len(varNamesInOrder)
    /\ {modelVarNames[i] : i \in 1..Len(modelVarNames)}
           = {varNamesInOrder[i] : i \in 1..Len(varNamesInOrder)}

\* JSON.stringify(modelVarNames) === JSON.stringify(varNamesInOrder)
SameOrder(modelVarNames, varNamesInOrder) == modelVarNames = varNamesInOrder

\* the parser's result after the rows: the error of a row, or the table.
\* |totalProb - 1| > 1e-5 is tested and nothing is done about it
ParsedTable(rows) ==
    IF rows.error # Undefined THEN [error |-> rows.error, pmf |-> EmptyMap]
    ELSE [error |-> Undefined, pmf |-> rows.pmf]

\* the checks of the header, then the rows
ParseColumns(lines, header, probIndex, varNamesInOrder) ==
    IF probIndex = -1
    THEN [error |-> <<"Model distribution must have a 'Probability' column.">>,
          pmf |-> EmptyMap]
    ELSE IF ~SameOrder(SubSeq(header, 1, probIndex), varNamesInOrder)
    THEN [error |-> <<"Model variable order does not match data order",
                      SubSeq(header, 1, probIndex), varNamesInOrder>>,
          pmf |-> EmptyMap]
    ELSE ParsedTable(ParseRows(lines, header, probIndex))

ParseHeader(lines, header, varNamesInOrder) ==
    ParseColumns(lines, header, IndexOf(header, PROBABILITY), varNamesInOrder)

ParseLines(lines, varNamesInOrder) ==
    IF Len(lines) < 2
    THEN [error |-> <<"Model distribution is empty or invalid.">>, pmf |-> EmptyMap]
    ELSE ParseHeader(lines, TrimAll(Split(lines[1], ",")), varNamesInOrder)

parseTheoreticalModel(model, varNamesInOrder) ==
    ParseLines(Split(Trim(model.distribution), "\n"), varNamesInOrder)

(***************************************************************************)
(* services/crossSectionalService.ts: performFullAnalysis                  *)
(***************************************************************************)
EmptyObj == [k \in {} |-> Undefined]

\* obj[key] = val
ObjSet(obj, key, val) == [k \in DOMAIN obj \cup {key} |-> IF k = key THEN val ELSE obj[k]]

IsCategorical(v) == v.type \in {"Nominal", "Ordinal"}

\* the index pairs of for (i = 0..) for (j = i + 1..), in loop order, 1-based
PairSeq(numVars) ==
    LET F[i \in 0..numVars] ==
            IF i = 0 THEN <<>> ELSE F[i - 1] \o [d \in 1..(numVars - i) |-> <<i, i + d>>]
    IN  F[numVars]

\* A faulty variant of PairKey: the ids are joined in the order given.
PairKeyAsGiven(var1, var2) == Join(<<var1.id, var2.id>>, <<"-">>)

\* [var1.id, var2.id].sort().join('-')
PairKey(var1, var2) == Join(SortPair(var1.id, var2.id), <<"-">>)

RECURSIVE EmpiricalMarginals(_, _, _)
\* lines 25-29: the marginal PMF of each of the first n variables, by id
EmpiricalMarginals(vs, joint, n) ==
    IF n = 0 THEN EmptyObj
    ELSE ObjSet(EmpiricalMarginals(vs, joint, n - 1), vs[n].id,
                getMarginalPMF(joint, <<n>>, Len(vs)))

RECURSIVE EmpiricalSingleVars(_, _, _)
\* lines 25-33: the empirical metrics of each of the first n variables
EmpiricalSingleVars(vs, joint, n) ==
    IF n = 0 THEN EmptyObj
    ELSE ObjSet(EmpiricalSingleVars(vs, joint, n - 1), vs[n].id,
                [empirical |-> getSingleVarMetrics(getMarginalPMF(joint, <<n>>, Len(vs)),
                                                   vs[n].type, vs[n].ordinalOrder),
                 theoretical |-> EmptyObj])

\* lines 43-56: the pairwise entry of var1 and var2
EmpiricalPair(var1, var2, pairPMF, marginal1, marginal2) ==
    [var1_id |-> var1.id, var1_name |-> var1.name,
     var2_id |-> var2.id, var2_name |-> var2.name,
     empirical |->
         [distanceCorrelation |-> calculateDistanceCorrelation(var1.data, var2.data),
          mutualInformation |-> calculateMutualInformation(pairPMF, marginal1, marginal2),
          pearsonCorrelation |->
              IF var1.type = "Numerical" /\ var2.type = "Numerical"
              THEN calculatePearsonCorrelation(var1.data, var2.data) ELSE Undefined,
          cramersV |->
              IF IsCategorical(var1) /\ IsCategorical(var2)
              THEN calculateCramersV(var1.data, var2.data) ELSE Undefined],
     theoretical |-> EmptyObj]

\* lines 36-57: the pairwise entries, in loop order
EmpiricalPairwise(vs, joint, marginals, pairs) ==
    [p \in 1..Len(pairs) |->
        EmpiricalPair(vs[pairs[p][1]], vs[pairs[p][2]],
                      getMarginalPMF(joint, pairs[p], Len(vs)),
                      marginals[vs[pairs[p][1]].id], marginals[vs[pairs[p][2]].id])]

RECURSIVE EmpiricalConditionals(_, _, _, _, _)
\* lines 58-64: the conditional distributions of the first p pairs, by pair key
EmpiricalConditionals(vs, joint, marginals, pairs, p) ==
    IF p = 0 THEN EmptyObj
    ELSE ObjSet(EmpiricalConditionals(vs, joint, marginals, pairs, p - 1),
                PairKey(vs[pairs[p][1]], vs[pairs[p][2]]),
                [empirical |->
                     getConditionalDistributions(getMarginalPMF(joint, pairs[p], Len(vs)),
                         marginals[vs[pairs[p][1]].id], marginals[vs[pairs[p][2]].id],
                         vs[pairs[p][1]], vs[pairs[p][2]]),
                 theoretical |-> EmptyObj])

\* the report before any model is fitted
EmpiricalReport(vs, joint, marginals, pairs) ==
    [empiricalJointPMF |-> joint,
     single_vars |-> EmpiricalSingleVars(vs, joint, Len(vs)),
     pairwise |-> EmpiricalPairwise(vs, joint, marginals, pairs),
     conditional |-> EmpiricalConditionals(vs, joint, marginals, pairs, Len(pairs)),
     modelFit |-> <<>>,
     theoreticalJointPMFs |-> EmptyObj]

\* lines 20-66: the empirical part of the report, from the joint PMF
EmpiricalOf(vs, joint) ==
    EmpiricalReport(vs, joint, EmpiricalMarginals(vs, joint, Len(vs)), PairSeq(Len(vs)))

\* lines 20-66: the empirical part of the report
EmpiricalAnalysis(vs) == EmpiricalOf(vs, getEmpiricalJointPMF(vs))

RECURSIVE FitSingleVars(_, _, _, _, _)
\* lines 90-93: the model's single-variable metrics for the first n variables
FitSingleVars(sv0, vs, model, pmf, n) ==
    IF n = 0 THEN sv0
    ELSE [FitSingleVars(sv0, vs, model, pmf, n - 1) EXCEPT
             ![vs[n].id].theoretical =
                 ObjSet(@, model.id,
                        getSingleVarMetrics(getMarginalPMF(pmf, <<n>>, Len(vs)),
                                            vs[n].type, vs[n].ordinalOrder))]

\* pairwise.find(p => p.var1_id === var1.id && p.var2_id === var2.id), 0 when none
FindPair(pw, var1, var2) ==
    LET hits == {p \in 1..Len(pw) : pw[p].var1_id = var1.id /\ pw[p].var2_id = var2.id}
    IN  IF hits = {} THEN 0 ELSE CHOOSE p \in hits : \A q \in hits : p <= q

\* lines 99-120: the model's entries for the pair (var1, var2), added to prev
FitPair(prev, model, var1, var2, modelPairPMF, modelMarginal1, modelMarginal2) ==
    [pairwise |->
         IF FindPair(prev.pairwise, var1, var2) = 0 THEN prev.pairwise
         ELSE [prev.pairwise EXCEPT
                  ![FindPair(prev.pairwise, var1, var2)].theoretical =
                      ObjSet(@, model.id,
                             [mutualInformation |->
                                  calculateMutualInformation(modelPairPMF, modelMarginal1,
                                                             modelMarginal2)])],
     conditional |->
         IF PairKey(var1, var2) \notin DOMAIN prev.conditional THEN prev.conditional
         ELSE [prev.conditional EXCEPT
                  ![PairKey(var1, var2)].theoretical =
                      ObjSet(@, model.id,
                             getConditionalDistributions(modelPairPMF, modelMarginal1,
                                                         modelMarginal2, var1, var2))]]

RECURSIVE FitPairsUpTo(_, _, _, _, _, _, _)
\* the first p pairs of the loops of lines 95-96
FitPairsUpTo(pw0, cond0, vs, model, pmf, pairs, p) ==
    IF p = 0 THEN [pairwise |-> pw0, conditional |-> cond0]
    ELSE FitPair(FitPairsUpTo(pw0, cond0, vs, model, pmf, pairs, p - 1), model,
                 vs[pairs[p][1]], vs[pairs[p][2]],
                 getMarginalPMF(pmf, pairs[p], Len(vs)),
                 getMarginalPMF(pmf, <<pairs[p][1]>>, Len(vs)),
                 getMarginalPMF(pmf, <<pairs[p][2]>>, Len(vs)))

\* lines 95-121: the model's pairwise and conditional entries
FitPairs(pw0, cond0, vs, model, pmf) ==
    FitPairsUpTo(pw0, cond0, vs, model, pmf, PairSeq(Len(vs)), Len(PairSeq(Len(vs))))

\* lines 126-136: MSE of the model mean for every numerical variable
SingleVarMSE(sv, vs, model) ==
    LET F[n \in 0..Len(vs)] ==
            IF n = 0 THEN EmptyObj
            ELSE LET v == vs[n]
                     empiricalMetrics == sv[v.id].empirical
                     modelMetrics == sv[v.id].theoretical[model.id]
                     bias == RSub(modelMetrics.mean, empiricalMetrics.mean)
                 IN  IF v.type = "Numerical" /\ empiricalMetrics.mean # Undefined
                        /\ modelMetrics.mean # Undefined /\ modelMetrics.variance # Undefined
                     THEN ObjSet(F[n - 1], <<"MSE", v.name>>,
                                 RAdd(modelMetrics.variance, RMul(bias, bias)))
                     ELSE F[n - 1]
    IN  F[Len(vs)]

\* m.get(k) for a key the map holds
MapGet(m, k) == m[MapIdx(m, k)].v

RECURSIVE Predictions(_, _)
\* lines 156-159: condition value -> the model's conditional mean, over the first
\* n conditionals
Predictions(modelConditionals, n) ==
    IF n = 0 THEN EmptyMap
    ELSE IF modelConditionals[n].mean # Undefined
    THEN MapSet(Predictions(modelConditionals, n - 1), modelConditionals[n].conditionValue,
                modelConditionals[n].mean)
    ELSE Predictions(modelConditionals, n - 1)

\* line 168: row k has a numeric target value and a prediction for its condition
RowUsed(predictions, targetVar, givenVar, k) ==
    ~IsNaN(ToNumber(targetVar.data[k])) /\ MapHas(predictions, givenVar.data[k])

Squared(d) == RMul(d, d)

\* line 169: Math.pow(trueValue - predictedValue, 2)
SquaredError(predictions, targetVar, givenVar, k) ==
    Squared(RSub(ToNumber(targetVar.data[k]), MapGet(predictions, givenVar.data[k])))

RECURSIVE SquaredErrors(_, _, _, _, _)
\* squaredErrorsByCondition[c] over the first k rows, in row order
SquaredErrors(predictions, targetVar, givenVar, c, k) ==
    IF k = 0 THEN <<>>
    ELSE IF RowUsed(predictions, targetVar, givenVar, k) /\ givenVar.data[k] = c
    THEN Append(SquaredErrors(predictions, targetVar, givenVar, c, k - 1),
                SquaredError(predictions, targetVar, givenVar, k))
    ELSE SquaredErrors(predictions, targetVar, givenVar, c, k - 1)

\* errors.reduce((a, b) => a + b, 0) / errors.length
MeanOf(errors) == RDiv(RSum(errors), <<Len(errors), 1>>)

\* empiricalMarginal.find(p => p.value === c)?.probability || 0
MarginalProb(empiricalMarginal, c) ==
    LET hits == {i \in 1..Len(empiricalMarginal) : empiricalMarginal[i].value = c}
        first == CHOOSE i \in hits : \A j \in hits : i <= j
    IN  IF hits = {} \/ IsNaN(empiricalMarginal[first].probability) THEN Zero
        ELSE empiricalMarginal[first].probability

\* lines 181-186: the MSE of condition c, and its share of the cumulative MSE
AddConditionMSE(prev, targetVar, givenVar, c, mse, prob) ==
    [mse |-> ObjSet(prev.mse, <<"MSE", targetVar.name, givenVar.name, c>>, mse),
     cumulativeMSE |-> RAdd(prev.cumulativeMSE, RMul(mse, prob))]

RECURSIVE ConditionMSEs(_, _, _, _, _, _, _)
\* lines 179-188 for the first n conditions
ConditionMSEs(mse0, targetVar, givenVar, predictions, empiricalMarginal, conditions, n) ==
    IF n = 0 THEN [mse |-> mse0, cumulativeMSE |-> Zero]
    ELSE AddConditionMSE(
             ConditionMSEs(mse0, targetVar, givenVar, predictions, empiricalMarginal,
                           conditions, n - 1),
             targetVar, givenVar, conditions[n],
             MeanOf(SquaredErrors(predictions, targetVar, givenVar, conditions[n],
                                  Len(targetVar.data))),
             MarginalProb(empiricalMarginal, conditions[n]))

\* lines 190-193: the cumulative MSE is recorded when it is positive
WithCumulativeMSE(done, targetVar, givenVar) ==
    IF RLt(Zero, done.cumulativeMSE)
    THEN ObjSet(done.mse, <<"Cumulative MSE", targetVar.name, givenVar.name>>,
                done.cumulativeMSE)
    ELSE done.mse

\* the keys of squaredErrorsByCondition, in insertion order
ConditionsSeen(predictions, targetVar, givenVar) ==
    Dedup(SelectAt(givenVar.data,
                   {k \in 1..Len(givenVar.data) : RowUsed(predictions, targetVar, givenVar, k)}))

\* lines 161-193, given the predictions
PredictedMSE(mse0, targetVar, givenVar, empiricalMarginal, predictions) ==
    WithCumulativeMSE(
        ConditionMSEs(mse0, targetVar, givenVar, predictions, empiricalMarginal,
                      ConditionsSeen(predictions, targetVar, givenVar),
                      Len(ConditionsSeen(predictions, targetVar, givenVar))),
        targetVar, givenVar)

\* lines 151-154: the model has conditionals of the pair given givenVar
HasModelConditionals(cond, model, givenVar, pairKey) ==
    /\ pairKey \in DOMAIN cond
    /\ model.id \in DOMAIN cond[pairKey].theoretical
    /\ givenVar.name \in DOMAIN cond[pairKey].theoretical[model.id]

\* lines 152-193, given the model's conditionals of the pair
ModelConditionalMSE(mse0, targetVar, givenVar, sv, modelConditionals) ==
    PredictedMSE(mse0, targetVar, givenVar, sv[givenVar.id].empirical.pmf,
                 Predictions(modelConditionals, Len(modelConditionals)))

\* lines 143-194: the per-condition and cumulative MSE of one (target, given) pair,
\* added to the metrics collected so far
ConditionalMSE(mse0, targetVar, givenVar, sv, cond, model) ==
    IF ~(targetVar.type = "Numerical" /\ IsCategorical(givenVar))
       \/ ~HasModelConditionals(cond, model, givenVar, PairKey(targetVar, givenVar))
    THEN mse0
    ELSE ModelConditionalMSE(mse0, targetVar, givenVar, sv,
             cond[PairKey(targetVar, givenVar)].theoretical[model.id][givenVar.name])

RECURSIVE MSEMetricsUpTo(_, _, _, _, _)
\* the loops of lines 139-140 over (i, j), i, j in 0..numVars-1, as one index n
MSEMetricsUpTo(sv, cond, vs, model, n) ==
    IF n = 0 THEN SingleVarMSE(sv, vs, model)
    ELSE IF (n - 1) \div Len(vs) = (n - 1) % Len(vs)
    THEN MSEMetricsUpTo(sv, cond, vs, model, n - 1)
    ELSE ConditionalMSE(MSEMetricsUpTo(sv, cond, vs, model, n - 1),
                        vs[((n - 1) \div Len(vs)) + 1], vs[((n - 1) % Len(vs)) + 1],
                        sv, cond, model)

\* lines 123-196: mseMetrics of a model
MSEMetrics(sv, cond, vs, model) == MSEMetricsUpTo(sv, cond, vs, model, Len(vs) * Len(vs))

\* A faulty variant of RecordError: the error record replaces the fit table
\* (modelFit = [...] for modelFit.push(...)).
RecordErrorAlone(r, model, error) ==
    [r EXCEPT !.modelFit = <<[modelName |-> model.name, error |-> error]>>]

\* lines 76-80: a model that failed validation leaves its error and nothing else
RecordError(r, model, error) ==
    [r EXCEPT !.modelFit = Append(@, [modelName |-> model.name, error |-> error])]

\* lines 198-203: the fit record of a model
ModelFitRecord(r, vs, model, parsedModelPMF, sv, conditional) ==
    [modelName |-> model.name,
     hellingerDistance |-> calculateHellingerDistance(r.empiricalJointPMF, parsedModelPMF),
     jensenShannonDistance |->
         FSqrt(calculateGeneralizedJensenShannonDivergence(
                   <<r.empiricalJointPMF, parsedModelPMF>>)),
     mse |-> MSEMetrics(sv, conditional, vs, model)]

\* lines 85-203: the report with the entries of a model with a non-empty table
ScoredReport(r, vs, model, parsedModelPMF, sv, pc) ==
    [empiricalJointPMF |-> r.empiricalJointPMF,
     single_vars |-> sv,
     pairwise |-> pc.pairwise,
     conditional |-> pc.conditional,
     modelFit |-> Append(r.modelFit,
                         ModelFitRecord(r, vs, model, parsedModelPMF, sv, pc.conditional)),
     theoreticalJointPMFs |-> ObjSet(r.theoreticalJointPMFs, model.id, parsedModelPMF)]

\* lines 81-203: a model whose table is empty leaves the report as it is
FitValidModel(r, vs, model, parsedModelPMF) ==
    IF Len(parsedModelPMF) = 0 THEN r
    ELSE ScoredReport(r, vs, model, parsedModelPMF,
                      FitSingleVars(r.single_vars, vs, model, parsedModelPMF, Len(vs)),
                      FitPairs(r.pairwise, r.conditional, vs, model, parsedModelPMF))

\* lines 76-203, given the parser's result
FitParsedModel(r, vs, model, parsed) ==
    IF parsed.error # Undefined THEN RecordError(r, model, parsed.error)
    ELSE FitValidModel(r, vs, model, parsed.pmf)

\* lines 73-204: the forEach callback for one theoretical model, on the report r
FitModel(r, vs, model) ==
    FitParsedModel(r, vs, model,
                   parseTheoreticalModel(model, [i \in 1..Len(vs) |-> vs[i].name]))

RECURSIVE FitModels(_, _, _, _)
\* theoreticalModels.forEach over the first n models
FitModels(r, vs, models, n) ==
    IF n = 0 THEN r ELSE FitModel(FitModels(r, vs, models, n - 1), vs, models[n])

\* the report performFullAnalysis returns for a non-empty dataset
performFullAnalysis(vs, models) == FitModels(EmpiricalAnalysis(vs), vs, models, Len(models))

(***************************************************************************)
(* Inputs of the cross-sectional analysis                                  *)
(***************************************************************************)
\* the variables a dataset is made of: identity, type tag and observable values;
\* the ids are not in the order of the columns
VarPool ==
    <<[id |-> <<"v", "1">>, name |-> <<"A">>, type |-> "Numerical",
       ordinalOrder |-> <<>>, values |-> << <<"1">>, <<"2">> >>],
      [id |-> <<"v", "0">>, name |-> <<"B">>, type |-> "Nominal",
       ordinalOrder |-> <<>>, values |-> << <<"x">>, <<"y">> >>],
      [id |-> <<"v", "2">>, name |-> <<"C">>, type |-> "Ordinal",
       ordinalOrder |-> << <<"l">>, <<"h">> >>, values |-> << <<"h">>, <<"l">> >>]>>

\* the columns parseInput hands over for nv variables and n rows, all of one
\* length; cells[j][i] picks the value of variable j in row i
MkDataSet(nv, n, cells) ==
    [j \in 1..nv |->
        [id |-> VarPool[j].id, name |-> VarPool[j].name, type |-> VarPool[j].type,
         ordinalOrder |-> VarPool[j].ordinalOrder,
         data |-> [i \in 1..n |-> VarPool[j].values[cells[j][i]]]]]

\* the datasets of nv columns and n rows
DataSetsOf(nv, n) == {MkDataSet(nv, n, cells) : cells \in [1..nv -> [1..n -> 1..2]]}

\* the rows of a dataset of nv columns: one less for the datasets of all columns
SamplesFor(nv) == IF nv < Len(VarPool) THEN 0..MaxSamples ELSE 0..(MaxSamples - 1)

\* the datasets of the cross-sectional specification
DataSets == UNION {UNION {DataSetsOf(nv, n) : n \in SamplesFor(nv)} : nv \in 0..Len(VarPool)}

\* the datasets of the model-fit specification: at most two columns
FitDataSets == UNION {DataSetsOf(nv, n) : nv \in 0..2, n \in 0..MaxFitSamples}

\* the type tags a user can give a column, and the cells of a tagged dataset
TypeTags == {"Numerical", "Nominal", "Ordinal"}

TaggedValues == << <<"1">>, <<"2">>, <<"x">> >>

\* two columns of n rows whose type tags are chosen whatever the cells hold
MkTaggedDataSet(n, tags, cells) ==
    [j \in 1..2 |->
        [id |-> VarPool[j].id, name |-> VarPool[j].name, type |-> tags[j],
         ordinalOrder |-> <<>>,
         data |-> [i \in 1..n |-> TaggedValues[cells[j][i]]]]]

TaggedDataSets ==
    UNION {{MkTaggedDataSet(n, tags, cells) :
               tags \in [1..2 -> TypeTags],
               cells \in [1..2 -> [1..n -> 1..Len(TaggedValues)]]} :
           n \in 0..MaxTaggedSamples}

Row(cells) == Join(cells, Comma)

Text(lines) == Join(lines, <<"\n">>)

\* the k-th outcome row for the variables vs with probability cell p
OutcomeRow(vs, k, p) == Row([j \in 1..Len(vs) |-> VarPool[j].values[k]] \o <<p>>)

Names(vs) == [j \in 1..Len(vs) |-> vs[j].name]

Reverse(s) == [i \in 1..Len(s) |-> s[Len(s) + 1 - i]]

P05 == <<"0", ".", "5">>
P04 == <<"0", ".", "4">>
P025 == <<"0", ".", "2", "5">>
P0 == <<"0">>
P15 == <<"1", ".", "5">>

\* the distribution strings a user can hand in for the variables vs, by kind
ModelText(kind, vs) ==
    LET header == Row(Names(vs) \o <<PROBABILITY>>)
    IN  CASE kind = "valid" ->
                 Text(<<header, OutcomeRow(vs, 1, P05), OutcomeRow(vs, 2, P05)>>)
          [] kind = "sum09" ->
                 Text(<<header, OutcomeRow(vs, 1, P05), OutcomeRow(vs, 2, P04)>>)
          [] kind = "order" ->
                 Text(<<Row(Reverse(Names(vs)) \o <<PROBABILITY>>),
                        OutcomeRow(vs, 1, P05), OutcomeRow(vs, 2, P05)>>)
          [] kind = "arity" ->
                 Text(<<Row(SubSeq(Names(vs), 1, Len(vs) - 1) \o <<PROBABILITY>>),
                        Row(<<P05>>), Row(<<P05>>)>>)
          [] kind = "noprob" ->
                 Text(<<Row(Names(vs)), OutcomeRow(vs, 1, P05)>>)
          [] kind = "header" -> header \o <<"\n">>
          [] kind = "short" ->
                 Text(<<header, Row(<<P05>>), Row(<<P05>>)>>)
          [] kind = "nan" ->
                 Text(<<header, OutcomeRow(vs, 1, P05), OutcomeRow(vs, 2, <<"x">>)>>)
          [] kind = "negative" ->
                 Text(<<header, OutcomeRow(vs, 1, P05), OutcomeRow(vs, 2, <<"-">> \o P05)>>)
          [] kind = "over" ->
                 Text(<<header, OutcomeRow(vs, 1, P05), OutcomeRow(vs, 2, P15)>>)
          [] kind = "half" -> Text(<<header, OutcomeRow(vs, 1, P05)>>)
          [] kind = "dup" ->
                 Text(<<header, OutcomeRow(vs, 1, P025), OutcomeRow(vs, 2, P05),
                        OutcomeRow(vs, 1, P025), Row(Names(vs) \o <<P0>>)>>)

\* the model with the k-th identity and a distribution of the given kind
MkModel(k, kind, vs) ==
    [id |-> <<"m", Digits[k + 1]>>, name |-> <<"M", Digits[k + 1]>>,
     distribution |-> ModelText(kind, vs)]

ModelLists(kinds, maxModels, vs) ==
    UNION {{[k \in 1..n |-> MkModel(k, ks[k], vs)] : ks \in [1..n -> kinds]} :
           n \in 0..maxModels}

(***************************************************************************)
(* services/timeSeriesService.ts                                           *)
(* A TPM is a Map from a from-state to a Map from a to-state to a          *)
(* probability.                                                            *)
(***************************************************************************)
\* Array.prototype.sort() of strings: by code unit
RECURSIVE InsertStr(_, _)
InsertStr(sorted, s) ==
    IF Len(sorted) = 0 THEN <<s>>
    ELSE IF StrLess(s, sorted[Len(sorted)])
         THEN Append(InsertStr(SubSeq(sorted, 1, Len(sorted) - 1), s), sorted[Len(sorted)])
         ELSE Append(sorted, s)

RECURSIVE SortStrings(_)
SortStrings(ss) ==
    IF Len(ss) = 0 THEN <<>> ELSE InsertStr(SortStrings(SubSeq(ss, 1, Len(ss) - 1)), ss[Len(ss)])

\* tpm.get(fromState)?.get(toState) || 0
TPMGet0(tpm, fromState, toState) ==
    IF MapHas(tpm, fromState) THEN MapGet0(MapGet(tpm, fromState), toState) ELSE Zero

\* A faulty variant of calculateTPM: the joint counts are divided by the number
\* of instances, not by the count of the from-state.
calculateTPMJoint(instanceData, stateSpace, timeIndex, order) ==
    LET numInstances == Len(instanceData)
        fromState(i) == Join([j \in 1..order |-> instanceData[i][timeIndex - order + j]], Comma)
        toState(i) == instanceData[i][timeIndex + 1]
        fromStateCounts[i \in 0..numInstances] ==
            IF i = 0 THEN EmptyMap ELSE MapAdd(fromStateCounts[i - 1], fromState(i), One)
        counts == fromStateCounts[numInstances]
        jointCount(f, s) ==
            Cardinality({i \in 1..numInstances : fromState(i) = f /\ toState(i) = s})
        toDist(n) == [k \in 1..Len(stateSpace) |->
                         [k |-> stateSpace[k],
                          v |-> Rat(jointCount(counts[n].k, stateSpace[k]), numInstances)]]
    IN  IF timeIndex < order THEN EmptyMap
        ELSE [n \in 1..Len(counts) |-> [k |-> counts[n].k, v |-> toDist(n)]]

\* timeIndex is the code's 0-based index of the 'to' column
calculateTPM(instanceData, stateSpace, timeIndex, order) ==
    LET numInstances == Len(instanceData)
        fromState(i) == Join([j \in 1..order |-> instanceData[i][timeIndex - order + j]], Comma)
        toState(i) == instanceData[i][timeIndex + 1]
        fromStateCounts[i \in 0..numInstances] ==
            IF i = 0 THEN EmptyMap ELSE MapAdd(fromStateCounts[i - 1], fromState(i), One)
        counts == fromStateCounts[numInstances]
        \* jointCounts.get(f).get(s) || 0
        jointCount(f, s) ==
            Cardinality({i \in 1..numInstances : fromState(i) = f /\ toState(i) = s})
        toDist(n) == [k \in 1..Len(stateSpace) |->
                         [k |-> stateSpace[k],
                          v |-> RDiv(<<jointCount(counts[n].k, stateSpace[k]), 1>>, counts[n].v)]]
    IN  IF timeIndex < order THEN EmptyMap
        ELSE [n \in 1..Len(counts) |-> [k |-> counts[n].k, v |-> toDist(n)]]

calculateHellingerDistanceTPM(tpm1, tpm2) ==
    LET fromStates == Dedup(MapKeys(tpm1) \o MapKeys(tpm2))
        rowKeys(f) == (IF MapHas(tpm1, f) THEN MapKeys(MapGet(tpm1, f)) ELSE <<>>)
                      \o (IF MapHas(tpm2, f) THEN MapKeys(MapGet(tpm2, f)) ELSE <<>>)
        toStates == Dedup(ConcatAll([i \in 1..Len(fromStates) |-> rowKeys(fromStates[i])]))
        sortedFromStates == SortStrings(fromStates)
        sortedToStates == SortStrings(toStates)
        nTo == Len(sortedToStates)
        \* p[i], q[i] for the i-th (from, to) pair in row-major order
        f(i) == sortedFromStates[((i - 1) \div nTo) + 1]
        s(i) == sortedToStates[((i - 1) % nTo) + 1]
        sumOfSquaredDiffs ==
            SumInts([i \in 1..(Len(sortedFromStates) * nTo) |->
                        SqDiff(TPMGet0(tpm1, f(i), s(i)), TPMGet0(tpm2, f(i), s(i)))])
    IN  IF Len(sortedFromStates) = 0 \/ Len(sortedToStates) = 0 THEN 0
        ELSE HellingerOfSum(sumOfSquaredDiffs)

tpmToJointPmf(tpm, allFromStates, allToStates) ==
    LET nTo == Len(allToStates)
        f(i) == allFromStates[((i - 1) \div nTo) + 1]
        s(i) == allToStates[((i - 1) % nTo) + 1]
        pmf[i \in 0..(Len(allFromStates) * nTo)] ==
            IF i = 0 THEN EmptyMap
            ELSE IF RLt(Zero, TPMGet0(tpm, f(i), s(i)))
            THEN MapSet(pmf[i - 1], f(i) \o Comma \o s(i), TPMGet0(tpm, f(i), s(i)))
            ELSE pmf[i - 1]
        raw == pmf[Len(allFromStates) * nTo]
    IN  IF Len(allFromStates) > 0
        THEN [i \in 1..Len(raw) |->
                 [k |-> raw[i].k, v |-> RDiv(raw[i].v, <<Len(allFromStates), 1>>)]]
        ELSE raw

calculateGJS_TPM_Distance_normalized(tpms) ==
    LET n == Len(tpms)
        allFromStates == Dedup(ConcatAll([i \in 1..n |-> MapKeys(tpms[i])]))
        rowKeys(t) == ConcatAll([r \in 1..Len(t) |-> MapKeys(t[r].v)])
        allToStates == Dedup(ConcatAll([i \in 1..n |-> rowKeys(tpms[i])]))
        fromStateList == SortStrings(allFromStates)
        toStateList == SortStrings(allToStates)
        pmfs == [i \in 1..n |-> tpmToJointPmf(tpms[i], fromStateList, toStateList)]
        divergence_bits == calculateGeneralizedJensenShannonDivergence(pmfs)
        JSD_norm_divergence == (divergence_bits * FPScale) \div Log2Int(n)
        clamped_divergence == Min(Max(JSD_norm_divergence, 0), FPScale)
    IN  IF n < 2 THEN 0 ELSE FSqrt(clamped_divergence)

\* the threshold 0.5 of the homogeneity decision
HomogeneityThreshold == FPScale \div 2

\* A faulty variant of HomogeneityDecision: the pairwise distances are ignored.
HomogeneityByGJSOnly(hellingerDistances, gjsDistance) ==
    gjsDistance <= HomogeneityThreshold

\* A faulty variant of HomogeneityDecision: a pairwise distance passes up to 1.
HomogeneityWithUnitThreshold(hellingerDistances, gjsDistance) ==
    /\ \A r \in 1..Len(hellingerDistances) : hellingerDistances[r].distance <= FPScale
    /\ gjsDistance <= HomogeneityThreshold

\* hellingerDistances.every(r => r.distance <= 0.5) && gjsDistance <= 0.5
HomogeneityDecision(hellingerDistances, gjsDistance) ==
    /\ \A r \in 1..Len(hellingerDistances) :
           hellingerDistances[r].distance <= HomogeneityThreshold
    /\ gjsDistance <= HomogeneityThreshold

runHomogeneityCheck(tpms) ==
    LET pairs == PairSeq(Len(tpms))
        hellingerDistances ==
            [p \in 1..Len(pairs) |->
                [pair |-> <<tpms[pairs[p][1]].label, "vs", tpms[pairs[p][2]].label>>,
                 distance |-> calculateHellingerDistanceTPM(tpms[pairs[p][1]].tpm,
                                                            tpms[pairs[p][2]].tpm)]]
        gjsDistance == calculateGJS_TPM_Distance_normalized([i \in 1..Len(tpms) |-> tpms[i].tpm])
    IN  IF Len(tpms) < 2
        THEN [hellingerDistances |-> <<>>, gjsDistance |-> 0, isHomogeneous |-> TRUE]
        ELSE [hellingerDistances |-> hellingerDistances, gjsDistance |-> gjsDistance,
              isHomogeneous |-> HomogeneityDecision(hellingerDistances, gjsDistance)]

\* A faulty variant of AverageTPM: the sum is divided by the number of step
\* TPMs that have a row, not by the number of step TPMs.
AverageOverNonEmpty(tpms_firstOrder, stateSpace) ==
    LET allFromStates == Dedup(ConcatAll([i \in 1..Len(tpms_firstOrder) |->
                                             MapKeys(tpms_firstOrder[i].tpm)]))
        allToStates == Dedup(stateSpace)
        present == {i \in 1..Len(tpms_firstOrder) : tpms_firstOrder[i].tpm # EmptyMap}
        sumProb(f, s) == RSum([i \in 1..Len(tpms_firstOrder) |->
                                  TPMGet0(tpms_firstOrder[i].tpm, f, s)])
    IN  [n \in 1..Len(allFromStates) |->
            [k |-> allFromStates[n],
             v |-> [m \in 1..Len(allToStates) |->
                       [k |-> allToStates[m],
                        v |-> RDiv(sumProb(allFromStates[n], allToStates[m]),
                                   <<Cardinality(present), 1>>)]]]]

\* lines 180-196
AverageTPM(tpms_firstOrder, stateSpace) ==
    LET allFromStates == Dedup(ConcatAll([i \in 1..Len(tpms_firstOrder) |->
                                             MapKeys(tpms_firstOrder[i].tpm)]))
        allToStates == Dedup(stateSpace)
        sumProb(f, s) == RSum([i \in 1..Len(tpms_firstOrder) |->
                                  TPMGet0(tpms_firstOrder[i].tpm, f, s)])
    IN  [n \in 1..Len(allFromStates) |->
            [k |-> allFromStates[n],
             v |-> [m \in 1..Len(allToStates) |->
                       [k |-> allToStates[m],
                        v |-> RDiv(sumProb(allFromStates[n], allToStates[m]),
                                   <<Len(tpms_firstOrder), 1>>)]]]]

\* A faulty variant of RepresentativeTPM: the first step's TPM whatever the
\* homogeneity check said.
RepresentativeAlwaysFirst(isHomogeneous, tpms_firstOrder, average_tpm) ==
    IF Len(tpms_firstOrder) > 0 THEN tpms_firstOrder[1].tpm ELSE EmptyMap

\* lines 207-209
RepresentativeTPM(isHomogeneous, tpms_firstOrder, average_tpm) ==
    IF isHomogeneous
    THEN (IF Len(tpms_firstOrder) > 0 THEN tpms_firstOrder[1].tpm ELSE EmptyMap)
    ELSE average_tpm

\* utils/distribution: cartesianProduct(...arrays)
RECURSIVE cartesianProduct(_)
cartesianProduct(arrays) ==
    IF Len(arrays) = 0 THEN <<>>
    ELSE LET acc == cartesianProduct(SubSeq(arrays, 1, Len(arrays) - 1))
             curr == arrays[Len(arrays)]
         IN  IF Len(acc) = 0 THEN [i \in 1..Len(curr) |-> <<curr[i]>>]
             ELSE ConcatAll([a \in 1..Len(acc) |->
                                [c \in 1..Len(curr) |-> Append(acc[a], curr[c])]])

\* the counts of the keys, in first-seen order, divided by the number of keys
RelativeFrequencies(keys) ==
    LET n == Len(keys)
        counts[i \in 0..n] == IF i = 0 THEN EmptyMap ELSE MapAdd(counts[i - 1], keys[i], One)
    IN  [e \in 1..Len(counts[n]) |->
            [k |-> counts[n][e].k, v |-> RDiv(counts[n][e].v, <<n, 1>>)]]

\* lines 198-205
FullHistoryPMF(instanceData) ==
    RelativeFrequencies([i \in 1..Len(instanceData) |-> Join(instanceData[i], Comma)])

\* lines 211-218
InitialStatePMF(instanceData) ==
    RelativeFrequencies([i \in 1..Len(instanceData) |-> instanceData[i][1]])

RECURSIVE PathProbabilityFromOne(_, _, _)
\* A faulty variant of PathProbability: the initial probability is left out.
PathProbabilityFromOne(states, t, tpmAndInitial) ==
    IF t = 1 THEN One
    ELSE RMul(PathProbabilityFromOne(states, t - 1, tpmAndInitial),
              TPMGet0(tpmAndInitial.tpm, states[t - 1], states[t]))

RECURSIVE PathProbability(_, _, _)
\* lines 228-235: the product over the first t states of a sequence
PathProbability(states, t, tpmAndInitial) ==
    IF t = 1 THEN MapGet0(tpmAndInitial.initial, states[1])
    ELSE RMul(PathProbability(states, t - 1, tpmAndInitial),
              TPMGet0(tpmAndInitial.tpm, states[t - 1], states[t]))

\* lines 220-249
MarkovApproximationPMF(stateSpace, numTimeSteps, initialStatePMF, representativeTPM) ==
    LET allPossibleSequences == cartesianProduct([t \in 1..numTimeSteps |-> stateSpace])
        model == [initial |-> initialStatePMF, tpm |-> representativeTPM]
        pmf[i \in 0..Len(allPossibleSequences)] ==
            IF i = 0 THEN EmptyMap
            ELSE IF Len(allPossibleSequences[i]) = 0 THEN pmf[i - 1]
            ELSE MapSet(pmf[i - 1], Join(allPossibleSequences[i], Comma),
                        PathProbability(allPossibleSequences[i],
                                        Len(allPossibleSequences[i]), model))
        raw == pmf[Len(allPossibleSequences)]
        totalProb == RSum(MapValues(raw))
    IN  IF RGtInv(totalProb, InvEps9) /\ RGtInv(RAbs(RSub(totalProb, One)), InvEps5)
        THEN [i \in 1..Len(raw) |-> [k |-> raw[i].k, v |-> RDiv(raw[i].v, totalProb)]]
        ELSE raw

\* lines 198-260
MarkovianFit(instanceData, stateSpace, numTimeSteps, representativeTPM) ==
    LET fullHistoryPMF == FullHistoryPMF(instanceData)
        initialStatePMF == InitialStatePMF(instanceData)
        markovApproximationPMF ==
            MarkovApproximationPMF(stateSpace, numTimeSteps, initialStatePMF, representativeTPM)
    IN  [fullHistoryPMF |-> fullHistoryPMF,
         markovApproximationPMF |-> markovApproximationPMF,
         initialStatePMF |-> initialStatePMF,
         hellingerDistance |-> calculateHellingerDistance(fullHistoryPMF, markovApproximationPMF),
         jensenShannonDistance |->
             FSqrt(calculateGeneralizedJensenShannonDivergence(
                       <<fullHistoryPMF, markovApproximationPMF>>))]

\* A faulty variant of WeakStationarity: the variance divides by the number of
\* values.
WeakStationarityPopulation(instanceData, timeLabels) ==
    LET valuesAtTimeT(t) ==
            SelectSeq([i \in 1..Len(instanceData) |-> ToNumber(instanceData[i][t])],
                      LAMBDA v : ~IsNaN(v))
        mean(t) == RDiv(RSum(valuesAtTimeT(t)), <<Len(valuesAtTimeT(t)), 1>>)
        variance(t) ==
            RDiv(RSum([i \in 1..Len(valuesAtTimeT(t)) |->
                          RMul(RSub(valuesAtTimeT(t)[i], mean(t)),
                               RSub(valuesAtTimeT(t)[i], mean(t)))]),
                 <<Len(valuesAtTimeT(t)), 1>>)
    IN  [mean |-> [t \in 1..Len(timeLabels) |->
                      IF Len(valuesAtTimeT(t)) > 0 THEN mean(t) ELSE NaN],
         variance |-> [t \in 1..Len(timeLabels) |->
                          IF Len(valuesAtTimeT(t)) > 0 THEN variance(t) ELSE NaN],
         timeLabels |-> timeLabels]

\* lines 267-285
WeakStationarity(instanceData, timeLabels) ==
    LET valuesAtTimeT(t) ==
            SelectSeq([i \in 1..Len(instanceData) |-> ToNumber(instanceData[i][t])],
                      LAMBDA v : ~IsNaN(v))
        mean(t) == RDiv(RSum(valuesAtTimeT(t)), <<Len(valuesAtTimeT(t)), 1>>)
        sq(x) == RMul(x, x)
        variance(t) ==
            IF Len(valuesAtTimeT(t)) > 1
            THEN RDiv(RSum([i \in 1..Len(valuesAtTimeT(t)) |->
                               sq(RSub(valuesAtTimeT(t)[i], mean(t)))]),
                      <<Len(valuesAtTimeT(t)) - 1, 1>>)
            ELSE Zero
    IN  [mean |-> [t \in 1..Len(timeLabels) |->
                      IF Len(valuesAtTimeT(t)) > 0 THEN mean(t) ELSE NaN],
         variance |-> [t \in 1..Len(timeLabels) |->
                          IF Len(valuesAtTimeT(t)) > 0 THEN variance(t) ELSE NaN],
         timeLabels |-> timeLabels]

\* lines 156-168: the panel read from the text
ParsePanel(text) ==
    LET lines == Split(Trim(text), "\n")
        header == TrimAll(Split(lines[1], ","))
        dataRows == SubSeq(lines, 2, Len(lines))
        timeLabels == [r \in 1..Len(dataRows) |-> Trim(Split(dataRows[r], ",")[1])]
        numInstances == Len(header) - 1
        instanceData == [i \in 1..numInstances |->
                            [r \in 1..Len(dataRows) |-> Trim(Split(dataRows[r], ",")[i + 1])]]
    IN  [timeLabels |-> timeLabels, instanceData |-> instanceData,
         stateSpace |-> SortStrings(Dedup(ConcatAll(instanceData)))]

\* the cells of the header and of the data rows, as lines 157-166 split them
PanelHeader(text) == Split(Split(Trim(text), "\n")[1], ",")

PanelRows(text) ==
    [r \in 1..(Len(Split(Trim(text), "\n")) - 1) |->
        Split(Split(Trim(text), "\n")[r + 1], ",")]

\* line 166: row.split(',')[i + 1] is a string for every instance i of every row;
\* .trim() of undefined is a TypeError
CellsPresent(text) ==
    \A r \in 1..Len(PanelRows(text)) : Len(PanelRows(text)[r]) >= Len(PanelHeader(text))

\* lines 170-176
StepTPMs(timeLabels, instanceData, stateSpace) ==
    [t \in 1..(Len(timeLabels) - 1) |->
        [tpm |-> calculateTPM(instanceData, stateSpace, t, 1),
         label |-> <<"P", timeLabels[t + 1], timeLabels[t]>>]]

\* lines 262-265
FullHistoryTPM(timeLabels, instanceData, stateSpace) ==
    LET numTimeSteps == Len(timeLabels)
    IN  [tpm |-> calculateTPM(instanceData, stateSpace, numTimeSteps - 1, numTimeSteps - 1),
         label |-> <<"P", timeLabels[numTimeSteps], "...", timeLabels[1]>>]

(***************************************************************************)
(* Panels: the time-series texts handed to performTimeSeriesAnalysis       *)
(***************************************************************************)
\* the numbers of instances (columns) of a panel of nt steps: up to three, and
\* up to two for the panels of more than three steps
InstancesFor(nt) == IF nt <= 3 THEN 1..3 ELSE 1..2

StatePool == << <<"1">>, <<"2">> >>

TimeHeader == <<"T", "i", "m", "e">>

InstanceHeader(i) == <<"I", "n", "s", "t", "a", "n", "c", "e", Digits[i + 1]>>

TimeLabel(t) == <<"t", Digits[t + 1]>>

\* the text of a panel of numInstances columns and numTimeSteps rows;
\* cells[i][t] picks the state of instance i at step t
PanelText(numInstances, numTimeSteps, cells) ==
    Text(<<Row(<<TimeHeader>> \o [i \in 1..numInstances |-> InstanceHeader(i)])>>
         \o [t \in 1..numTimeSteps |->
                Row(<<TimeLabel(t)>> \o [i \in 1..numInstances |-> StatePool[cells[i][t]]])])

PanelsOf(ni, nt) ==
    {PanelText(ni, nt, cells) : cells \in [1..ni -> [1..nt -> 1..Len(StatePool)]]}

PanelTexts == UNION {UNION {PanelsOf(ni, nt) : ni \in InstancesFor(nt)} : nt \in 1..MaxSteps}

\* panels whose last row lacks its last cell
RaggedPanelTexts ==
    {SubSeq(t, 1, Len(t) - 2) : t \in UNION {PanelsOf(ni, nt) : ni \in 1..2, nt \in 1..2}}

\* panels with a state that is no number
MixedStatePool == << <<"1">>, <<"2">>, <<"x">> >>

MixedPanelText(numInstances, numTimeSteps, cells) ==
    Text(<<Row(<<TimeHeader>> \o [i \in 1..numInstances |-> InstanceHeader(i)])>>
         \o [t \in 1..numTimeSteps |->
                Row(<<TimeLabel(t)>> \o [i \in 1..numInstances |-> MixedStatePool[cells[i][t]]])])

MixedPanelTexts ==
    UNION {{MixedPanelText(ni, nt, cells) :
                cells \in [1..ni -> [1..nt -> 1..Len(MixedStatePool)]]} :
           ni \in 1..3, nt \in 1..2}

\* the panels whose TPMs are also computed at the orders 0..MaxOrder
ProbePanelTexts == UNION {PanelsOf(ni, nt) : ni \in 1..2, nt \in 1..MaxProbeSteps}

(***************************************************************************)
(* utils/typeUtils, services/parserService and services/analysisService:   *)
(* reading the input text                                                  *)
(***************************************************************************)
UpperCase == <<"A", "B", "C", "D", "E", "F", "G", "H", "I", "J", "K", "L", "M",
               "N", "O", "P", "Q", "R", "S", "T", "U", "V", "W", "X", "Y", "Z">>

LowerCase == <<"a", "b", "c", "d", "e", "f", "g", "h", "i", "j", "k", "l", "m",
               "n", "o", "p", "q", "r", "s", "t", "u", "v", "w", "x", "y", "z">>

\* String.prototype.toLowerCase
toLowerCase(s) ==
    [i \in 1..Len(s) |->
        IF \E k \in 1..Len(UpperCase) : UpperCase[k] = s[i]
        THEN LowerCase[CHOOSE k \in 1..Len(UpperCase) : UpperCase[k] = s[i]]
        ELSE s[i]]

\* String.prototype.startsWith
startsWith(s, prefix) == Len(s) >= Len(prefix) /\ SubSeq(s, 1, Len(prefix)) = prefix

\* the decimal text of a natural number, as a template literal writes it
RECURSIVE NumberToString(_)
NumberToString(n) ==
    IF n < 10 THEN <<Digits[n + 1]>>
    ELSE NumberToString(n \div 10) \o <<Digits[(n % 10) + 1]>>

\* lines[0].toLowerCase().split(',').map(h => h.trim())
LowerHeader(line) == TrimAll(Split(toLowerCase(line), ","))

\* typeUtils.ts lines 22-31: the verdict on the header cells
HeaderType(header) ==
    IF Len(header) < 2 THEN "cross-sectional"
    ELSE IF header[1] # <<"t", "i", "m", "e">> THEN "cross-sectional"
    ELSE IF \E i \in 2..Len(header) :
                ~startsWith(header[i], <<"i", "n", "s", "t", "a", "n", "c", "e">>)
         THEN "cross-sectional"
    ELSE "time-series"

\* typeUtils.ts detectAnalysisType
detectAnalysisType(inputText) ==
    IF Len(Split(Trim(inputText), "\n")) < 2 THEN "cross-sectional"
    ELSE HeaderType(LowerHeader(Split(Trim(inputText), "\n")[1]))

\* analysisService.ts lines 584-593: the verdict on the header cells
HeaderTypeNumbered(header) ==
    IF Len(header) < 2 THEN "cross-sectional"
    ELSE IF header[1] # <<"t", "i", "m", "e">> THEN "cross-sectional"
    ELSE IF \E i \in 2..Len(header) :
                header[i] # <<"i", "n", "s", "t", "a", "n", "c", "e">> \o NumberToString(i - 1)
         THEN "cross-sectional"
    ELSE "time-series"

\* analysisService.ts detectAnalysisType
analysisService_detectAnalysisType(inputText) ==
    IF Len(Split(Trim(inputText), "\n")) < 2 THEN "cross-sectional"
    ELSE HeaderTypeNumbered(LowerHeader(Split(Trim(inputText), "\n")[1]))

\* text.trim().split('\n').filter(line => line.trim() !== '')
NonBlankLines(inputText) ==
    SelectSeq(Split(Trim(inputText), "\n"), LAMBDA line : Trim(line) # <<>>)

\* row.split(',').map(v => v.trim())
RowValues(row) == TrimAll(Split(row, ","))

\* the columns the rows fill, one per header cell
FillColumns(header, rows) ==
    [c \in 1..Len(header) |->
        [name |-> header[c], data |-> [r \in 1..Len(rows) |-> RowValues(rows[r])[c]]]]

\* variables.filter(v => v.name)
NamedColumns(columns) == SelectSeq(columns, LAMBDA v : v.name # <<>>)

\* the 0-based index of the first row forEach throws at, -1 when it throws at none
FirstMismatch(rows, headerLength) ==
    IF \E r \in 1..Len(rows) : Len(RowValues(rows[r])) # headerLength
    THEN (CHOOSE r \in 1..Len(rows) :
              /\ Len(RowValues(rows[r])) # headerLength
              /\ \A q \in 1..(r - 1) : Len(RowValues(rows[q])) = headerLength) - 1
    ELSE -1

\* the characters as one piece of a message
RECURSIVE AsString(_)
AsString(chars) == IF chars = <<>> THEN "" ELSE Head(chars) \o AsString(Tail(chars))

\* parserService.ts line 32: the pieces of the message of the mismatch at rowIndex
MismatchMessage(rowIndex, numValues, headerLength) ==
    <<"Data row ", AsString(NumberToString(rowIndex + 1)), " has ",
      AsString(NumberToString(numValues)), " columns, but header has ",
      AsString(NumberToString(headerLength)),
      ". Please ensure all rows have the same number of columns.">>

\* parserService.ts lines 24-42, with the header cells and the data rows at hand
ParseTable(header, rows, rowIndex) ==
    IF rowIndex >= 0
    THEN [error |-> MismatchMessage(rowIndex, Len(RowValues(rows[rowIndex + 1])), Len(header)),
          variables |-> <<>>]
    ELSE [error |-> <<>>, variables |-> NamedColumns(FillColumns(header, rows))]

\* parserService.ts lines 18-22 and on, with the non-blank lines at hand
ParseInputLines(lines) ==
    IF Len(lines) < 2
    THEN [error |-> <<"Input data must contain a header row and at least one data row.">>,
          variables |-> <<>>]
    ELSE ParseTable(RowValues(lines[1]), Tail(lines),
                    FirstMismatch(Tail(lines), Len(RowValues(lines[1]))))

\* parserService.ts parseInput: what it throws (error), else what it returns
parseInput(inputText) == ParseInputLines(NonBlankLines(inputText))

\* analysisService.ts lines 386-395: the rows of the header's length fill the columns
FillMatching(header, rows) ==
    FillColumns(header, SelectSeq(rows, LAMBDA row : Len(RowValues(row)) = Len(header)))

\* analysisService.ts parseInput, which throws nothing
analysisService_parseInput(inputText) ==
    IF Len(NonBlankLines(inputText)) < 2 THEN <<>>
    ELSE NamedColumns(FillMatching(RowValues(NonBlankLines(inputText)[1]),
                                   Tail(NonBlankLines(inputText))))

\* the input texts: a header and up to MaxInputRows rows of one or two cells
InputHeaders ==
    { << <<"A">>, <<"B">> >>, << <<"A">>, <<>> >>, << <<"A">> >>, <<TimeHeader>>,
      <<TimeHeader, InstanceHeader(1)>>,
      << <<"t", "i", "m", "e">>, <<"I", "N", "S", "T", "A", "N", "C", "E", "1">> >>,
      <<TimeHeader, InstanceHeader(2)>>,
      <<TimeHeader, <<"I", "n", "s", "t", "a", "n", "c", "e", "A">> >>,
      <<TimeHeader, InstanceHeader(1), InstanceHeader(2)>>,
      <<TimeHeader, InstanceHeader(2), InstanceHeader(1)>>,
      << <<"T", "i", "m">>, InstanceHeader(1)>> }

InputCells == {<<"1">>, <<>>}

InputRows ==
    {<<c>> : c \in InputCells} \cup {<<c, d>> : c \in InputCells, d \in InputCells}
    \cup {<< <<"1">>, <<" ">> >>}

InputTexts ==
    UNION {{Text(<<Row(h)>> \o [r \in 1..n |-> Row(rows[r])]) :
                rows \in [1..n -> InputRows], h \in InputHeaders} : n \in 0..MaxInputRows}

(***************************************************************************)
(* State                                                                   *)
(***************************************************************************)
VARIABLES
    variables,             \* performFullAnalysis: the dataset
    theoreticalModels,     \* performFullAnalysis: the models
    pc,                    \* where the call stands: idle, models, done, thrown
    modelIdx,              \* the forEach position, 1-based
    empiricalJointPMF, single_vars, pairwise, conditional, modelFit,
    theoreticalJointPMFs,  \* the fields of the report
    text,                  \* performTimeSeriesAnalysis: the panel text
    tsPc,                  \* where that call stands
    timeLabels, instanceData, stateSpace,
    tpms_firstOrder, homogeneityCheck, average_tpm_firstOrder, representativeTPM,
    markovianFit, tpm_fullHistory, weakStationarity,
    order,                 \* calculateTPM: the order it is called with at every index
    probeTPMs,             \* what calculateTPM returned for timeIndex 0, 1, ...
    probeAverage,          \* the average (lines 180-196) of those TPMs
    lineage,               \* whose parseInput and detectAnalysisType are called
    inputPc,               \* where the reading of the input stands
    analysisType,          \* what detectAnalysisType returned
    parsedInput,           \* what parseInput returned
    inputError,            \* what parseInput threw
    inputText, isLoading, error, storedDatasets,
    app_theoreticalModels, \* App: the theoreticalModels of the form
    analysisMode, crossSectionalResults, timeSeriesResults,
    pendingAnalyze,        \* the inputText of the click whose computation is due
    analysis               \* ModelFitTable: what its useMemo returned

reportVars == <<empiricalJointPMF, single_vars, pairwise, conditional, modelFit,
                theoreticalJointPMFs>>

csVars == <<variables, theoreticalModels, pc, modelIdx, reportVars>>

tsLocals == <<timeLabels, instanceData, stateSpace, tpms_firstOrder, homogeneityCheck,
              average_tpm_firstOrder, representativeTPM, markovianFit, tpm_fullHistory,
              weakStationarity>>

probeVars == <<order, probeTPMs, probeAverage>>

tsVars == <<text, tsPc, tsLocals, probeVars>>

inputVars == <<lineage, inputPc, analysisType, parsedInput, inputError>>

appVars == <<inputText, isLoading, error, storedDatasets, app_theoreticalModels,
             analysisMode, crossSectionalResults, timeSeriesResults, pendingAnalyze>>

vars == <<csVars, tsVars, inputVars, appVars, analysis>>

Report ==
    [empiricalJointPMF |-> empiricalJointPMF, single_vars |-> single_vars,
     pairwise |-> pairwise, conditional |-> conditional, modelFit |-> modelFit,
     theoreticalJointPMFs |-> theoreticalJointPMFs]

SetReport(r) ==
    /\ empiricalJointPMF' = r.empiricalJointPMF
    /\ single_vars' = r.single_vars
    /\ pairwise' = r.pairwise
    /\ conditional' = r.conditional
    /\ modelFit' = r.modelFit
    /\ theoreticalJointPMFs' = r.theoreticalJointPMFs

NoReport ==
    [empiricalJointPMF |-> EmptyMap, single_vars |-> EmptyObj, pairwise |-> <<>>,
     conditional |-> EmptyObj, modelFit |-> <<>>, theoreticalJointPMFs |-> EmptyObj]

CSIdle ==
    /\ pc = "idle"
    /\ modelIdx = 0
    /\ empiricalJointPMF = NoReport.empiricalJointPMF
    /\ single_vars = NoReport.single_vars
    /\ pairwise = NoReport.pairwise
    /\ conditional = NoReport.conditional
    /\ modelFit = NoReport.modelFit
    /\ theoreticalJointPMFs = NoReport.theoreticalJointPMFs

TSIdle ==
    /\ tsPc = "idle"
    /\ timeLabels = <<>>
    /\ instanceData = <<>>
    /\ stateSpace = <<>>
    /\ tpms_firstOrder = <<>>
    /\ homogeneityCheck = Undefined
    /\ average_tpm_firstOrder = Undefined
    /\ representativeTPM = Undefined
    /\ markovianFit = Undefined
    /\ tpm_fullHistory = Undefined
    /\ weakStationarity = Undefined
    /\ probeTPMs = <<>>
    /\ probeAverage = Undefined

(***************************************************************************)
(* App.tsx and components/TheoreticalModelInput.tsx: the state of the      *)
(* application.  An object with string keys is a Map in insertion order;   *)
(* null is the empty sequence and a value v that may be null is <<v>>.     *)
(***************************************************************************)
Null == <<>>

\* model.stateSpaces[name]?.split(',').map(s => s.trim()).filter(Boolean) ?? []
ParsedSpace(stateSpaces, name) ==
    IF MapHas(stateSpaces, name)
    THEN SelectSeq(TrimAll(Split(MapGet(stateSpaces, name), ",")), LAMBDA s : s # <<>>)
    ELSE <<>>

ParsedSpaces(stateSpaces, variableNames) ==
    [i \in 1..Len(variableNames) |-> ParsedSpace(stateSpaces, variableNames[i])]

RECURSIVE ZeroTable(_, _)
\* TheoreticalModelInput.tsx lines 33-36: '0' under the key of each of the first
\* n joint states
ZeroTable(jointSpace, n) ==
    IF n = 0 THEN EmptyMap
    ELSE MapSet(ZeroTable(jointSpace, n - 1), Join(jointSpace[n], Comma), <<"0">>)

\* TheoreticalModelInput.tsx lines 27-37
NewJointProbabilities(parsedSpaces) ==
    IF \A i \in 1..Len(parsedSpaces) : Len(parsedSpaces[i]) > 0
    THEN ZeroTable(cartesianProduct(parsedSpaces), Len(cartesianProduct(parsedSpaces)))
    ELSE EmptyMap

\* TheoreticalModelInput.tsx handleStateSpaceChange: the model it hands to onUpdate
handleStateSpaceChange(model, variableNames, varName, value) ==
    [model EXCEPT
        !.stateSpaces = MapSet(model.stateSpaces, varName, value),
        !.jointProbabilities =
            NewJointProbabilities(
                ParsedSpaces(MapSet(model.stateSpaces, varName, value), variableNames))]

\* value.match(/^-?\d*\.?\d{0,5}/)[0], from the position i0 after the sign
TruncateFrom(value, i0) ==
    IF i0 + DigitRun(value, i0) <= Len(value) /\ value[i0 + DigitRun(value, i0)] = "."
    THEN SubSeq(value, 1, i0 + DigitRun(value, i0)
                              + Min(5, DigitRun(value, i0 + DigitRun(value, i0) + 1)))
    ELSE SubSeq(value, 1, i0 + DigitRun(value, i0) - 1)

\* TheoreticalModelInput.tsx lines 44-45
TruncateProbability(value) ==
    TruncateFrom(value, IF Len(value) > 0 /\ value[1] = "-" THEN 2 ELSE 1)

\* TheoreticalModelInput.tsx handleProbabilityChange: the model it hands to onUpdate
handleProbabilityChange(model, key, value) ==
    [model EXCEPT
        !.jointProbabilities = MapSet(model.jointProbabilities, key, TruncateProbability(value))]

\* TheoreticalModelInput.tsx lines 51-59: the rows of the table that is shown
JointStateSpace(model, variableNames) ==
    IF \E i \in 1..Len(variableNames) : Len(ParsedSpace(model.stateSpaces, variableNames[i])) = 0
    THEN <<>>
    ELSE cartesianProduct(ParsedSpaces(model.stateSpaces, variableNames))

RECURSIVE SumOfNumbers(_)
\* App.tsx lines 422-425: the sum of the values that Number() makes a number
SumOfNumbers(probStrs) ==
    IF Len(probStrs) = 0 THEN Zero
    ELSE IF IsNaN(ToNumber(probStrs[Len(probStrs)]))
         THEN SumOfNumbers(SubSeq(probStrs, 1, Len(probStrs) - 1))
         ELSE RAdd(SumOfNumbers(SubSeq(probStrs, 1, Len(probStrs) - 1)),
                   ToNumber(probStrs[Len(probStrs)]))

RECURSIVE ProductOfLengths(_)
\* App.tsx lines 431-434
ProductOfLengths(stateSpaces) ==
    IF Len(stateSpaces) = 0 THEN 1
    ELSE ProductOfLengths(Tail(stateSpaces)) * Len(Head(stateSpaces))

\* App.tsx lines 421-438: the verdict on one model
IsModelValid(model, variableNames) ==
    IF \E i \in 1..Len(variableNames) : Len(ParsedSpace(model.stateSpaces, variableNames[i])) = 0
    THEN TRUE
    ELSE IF Len(model.jointProbabilities)
                # ProductOfLengths(ParsedSpaces(model.stateSpaces, variableNames))
    THEN TRUE
    ELSE RLtInv(RAbs(RSub(SumOfNumbers(MapValues(model.jointProbabilities)), One)), InvEps5)

\* App.tsx areModelsValid
areModelsValid(models, variableNames) ==
    IF Len(models) = 0 \/ Len(variableNames) = 0 THEN TRUE
    ELSE \A m \in 1..Len(models) : IsModelValid(models[m], variableNames)

\* analysisService.ts lines 502-516: performFullAnalysis throws
NoDataFound(clickedText) ==
    \/ Len(analysisService_parseInput(clickedText)) = 0
    \/ Len(analysisService_parseInput(clickedText)[1].data) = 0

\* analysisService.ts performTimeSeriesAnalysis throws: a row lacks a cell
PanelRowShort(clickedText) == ~CellsPresent(clickedText)

NeverThrows(clickedText) == FALSE

\* App.tsx lines 451-470: the try block of the deferred computation throws
AnalysisThrows(clickedText) ==
    IF analysisService_detectAnalysisType(clickedText) = "cross-sectional"
    THEN NoDataFound(clickedText)
    ELSE PanelRowShort(clickedText)

\* App.tsx line 472: e.message
ThrownMessage(clickedText) ==
    IF analysisService_detectAnalysisType(clickedText) = "cross-sectional"
    THEN "No data found. Please ensure the input has a header and data rows."
    ELSE "Cannot read properties of undefined (reading 'trim')"

\* App.tsx lines 460-463: the results kept of the cross-sectional analysis
FullResults(clickedText) == [variables |-> analysisService_parseInput(clickedText)]

\* App.tsx lines 467-468: the results kept of the time-series analysis
PanelResults(clickedText) ==
    [timeLabels |-> ParsePanel(clickedText).timeLabels,
     stateSpace |-> ParsePanel(clickedText).stateSpace]

\* the texts the user types or uploads
TextA == Text(<<Row(<< <<"A">> >>), Row(<< <<"1">> >>), Row(<< <<"2">> >>)>>)

TextAB == Text(<<Row(<< <<"A">>, <<"B">> >>), Row(<< <<"1">>, <<"x">> >>)>>)

TextHeaderOnly == Row(<< <<"A">>, <<"B">> >>)

TextPanel ==
    Text(<<Row(<<TimeHeader, InstanceHeader(1)>>), Row(<<TimeLabel(1), <<"1">> >>),
           Row(<<TimeLabel(2), <<"2">> >>)>>)

TextRaggedPanel ==
    Text(<<Row(<<TimeHeader, InstanceHeader(1)>>), Row(<<TimeLabel(1), <<"1">> >>),
           Row(<<TimeLabel(2)>>)>>)

AppTexts == {TextA, TextHeaderOnly, TextPanel, TextRaggedPanel}

\* the files the user may upload: name and content; the content is a text
\* that the user does not type
AppFiles == {[name |-> "ab.csv", content |-> TextAB]}

\* what the user types into a state space and into a probability
SpaceTexts == {<<>>, <<"1">>}

ProbabilityTexts == {<<"0", ".", "5">>, <<"0", ".", "5", "0", "0", "0", "0", "4">>}

\* `model-${Date.now()}`: the ids that models are given
ModelIds == {<<"m", "o", "d", "e", "l", "-", "0">>}

\* App.tsx lines 382-390: the example model, on a smaller scale
InitialModel ==
    [id |-> <<"m", "o", "d", "e", "l", "-", "0">>,
     stateSpaces |-> << [k |-> <<"A">>, v |-> <<"1">>],
                        [k |-> <<"B">>, v |-> <<"x", ",", " ", "y">>] >>,
     jointProbabilities |-> EmptyMap]

AppIdle ==
    /\ inputText = TextPanel
    /\ isLoading = FALSE
    /\ error = Null
    /\ storedDatasets = <<>>
    /\ app_theoreticalModels = <<InitialModel>>
    /\ analysisMode = Null
    /\ crossSectionalResults = Null
    /\ timeSeriesResults = Null
    /\ pendingAnalyze = Null

InputIdle ==
    /\ lineage = "services"
    /\ inputPc = "idle"
    /\ analysisType = Undefined
    /\ parsedInput = <<>>
    /\ inputError = Undefined

\* the dataset varies, the model list is short
CSKinds == {"valid", "dup"}

InitCS ==
    /\ variables \in DataSets
    /\ theoreticalModels \in ModelLists(CSKinds, 1, variables)
    /\ CSIdle
    /\ text = <<>>
    /\ TSIdle
    /\ InputIdle
    /\ AppIdle
    /\ analysis = Null
    /\ order = 1

\* the model list varies, the dataset is small
FitKinds == {"valid", "sum09", "order", "arity", "noprob", "short", "nan"}

InitFit ==
    /\ variables \in FitDataSets
    /\ theoreticalModels \in ModelLists(FitKinds, MaxModels, variables)
    /\ CSIdle
    /\ text = <<>>
    /\ TSIdle
    /\ InputIdle
    /\ AppIdle
    /\ analysis = Null
    /\ order = 1

\* one model of any kind, the dataset is small
ModelKinds == FitKinds \cup {"negative", "over", "half", "dup"}

InitModel ==
    /\ variables \in FitDataSets
    /\ theoreticalModels \in ModelLists(ModelKinds, 1, variables)
    /\ CSIdle
    /\ text = <<>>
    /\ TSIdle
    /\ InputIdle
    /\ AppIdle
    /\ analysis = Null
    /\ order = 1

\* the type tags vary whatever the cells hold, one valid model
InitTagged ==
    /\ variables \in TaggedDataSets
    /\ theoreticalModels \in ModelLists({"valid"}, 1, variables)
    /\ CSIdle
    /\ text = <<>>
    /\ TSIdle
    /\ InputIdle
    /\ AppIdle
    /\ analysis = Null
    /\ order = 1

(***************************************************************************)
(* performFullAnalysis, step by step                                       *)
(***************************************************************************)
\* variables.length === 0 || variables[0]?.data.length === 0
EmptyDataset(vs) == IF Len(vs) = 0 THEN TRUE ELSE Len(vs[1].data) = 0

\* lines 14-16
AnalyzeThrows ==
    /\ pc = "idle"
    /\ EmptyDataset(variables)
    /\ pc' = "thrown"
    /\ UNCHANGED <<variables, theoreticalModels, modelIdx, reportVars, tsVars, inputVars, analysis, appVars>>

\* lines 18-71
Analyze ==
    /\ pc = "idle"
    /\ ~EmptyDataset(variables)
    /\ SetReport(EmpiricalAnalysis(variables))
    /\ pc' = "models"
    /\ modelIdx' = 1
    /\ UNCHANGED <<variables, theoreticalModels, tsVars, inputVars, analysis, appVars>>

\* lines 73-204, one iteration
FitNextModel ==
    /\ pc = "models"
    /\ modelIdx <= Len(theoreticalModels)
    /\ SetReport(FitModel(Report, variables, theoreticalModels[modelIdx]))
    /\ modelIdx' = modelIdx + 1
    /\ UNCHANGED <<variables, theoreticalModels, pc, tsVars, inputVars, analysis, appVars>>

\* line 206
Return ==
    /\ pc = "models"
    /\ modelIdx > Len(theoreticalModels)
    /\ pc' = "done"
    /\ UNCHANGED <<variables, theoreticalModels, modelIdx, reportVars, tsVars, inputVars, analysis, appVars>>

NextCS == AnalyzeThrows \/ Analyze \/ FitNextModel \/ Return

SpecCS == InitCS /\ [][NextCS]_vars

SpecFit == InitFit /\ [][NextCS]_vars

SpecTagged == InitTagged /\ [][NextCS]_vars

SpecModel == InitModel /\ [][NextCS]_vars

(***************************************************************************)
(* performTimeSeriesAnalysis, step by step                                 *)
(***************************************************************************)
InitTS ==
    /\ variables = <<>>
    /\ theoreticalModels = <<>>
    /\ CSIdle
    /\ text \in PanelTexts \cup RaggedPanelTexts
    /\ TSIdle
    /\ InputIdle
    /\ AppIdle
    /\ analysis = Null
    /\ order = 1

\* line 166: a row without a cell for some instance ends the call with a TypeError
TSParseThrows ==
    /\ tsPc = "idle"
    /\ ~CellsPresent(text)
    /\ tsPc' = "thrown"
    /\ UNCHANGED <<csVars, inputVars, analysis, appVars, probeVars, text, tsLocals>>

\* lines 156-168
TSParse ==
    /\ tsPc = "idle"
    /\ CellsPresent(text)
    /\ timeLabels' = ParsePanel(text).timeLabels
    /\ instanceData' = ParsePanel(text).instanceData
    /\ stateSpace' = ParsePanel(text).stateSpace
    /\ tsPc' = "parsed"
    /\ UNCHANGED <<csVars, inputVars, analysis, appVars, probeVars, text, tpms_firstOrder, homogeneityCheck, average_tpm_firstOrder,
                   representativeTPM, markovianFit, tpm_fullHistory, weakStationarity>>

\* lines 170-176
TSStepTPMs ==
    /\ tsPc = "parsed"
    /\ tpms_firstOrder' = StepTPMs(timeLabels, instanceData, stateSpace)
    /\ tsPc' = "tpms"
    /\ UNCHANGED <<csVars, inputVars, analysis, appVars, probeVars, text, timeLabels, instanceData, stateSpace, homogeneityCheck,
                   average_tpm_firstOrder, representativeTPM, markovianFit, tpm_fullHistory,
                   weakStationarity>>

\* line 178
TSHomogeneity ==
    /\ tsPc = "tpms"
    /\ homogeneityCheck' = runHomogeneityCheck(tpms_firstOrder)
    /\ tsPc' = "checked"
    /\ UNCHANGED <<csVars, inputVars, analysis, appVars, probeVars, text, timeLabels, instanceData, stateSpace, tpms_firstOrder,
                   average_tpm_firstOrder, representativeTPM, markovianFit, tpm_fullHistory,
                   weakStationarity>>

\* lines 180-196
TSAverage ==
    /\ tsPc = "checked"
    /\ average_tpm_firstOrder' = [tpm |-> AverageTPM(tpms_firstOrder, stateSpace),
                                  label |-> "Average 1st Order TPM"]
    /\ tsPc' = "averaged"
    /\ UNCHANGED <<csVars, inputVars, analysis, appVars, probeVars, text, timeLabels, instanceData, stateSpace, tpms_firstOrder,
                   homogeneityCheck, representativeTPM, markovianFit, tpm_fullHistory,
                   weakStationarity>>

\* lines 198-260
TSMarkovFit ==
    /\ tsPc = "averaged"
    /\ representativeTPM' = RepresentativeTPM(homogeneityCheck.isHomogeneous, tpms_firstOrder,
                                              average_tpm_firstOrder.tpm)
    /\ markovianFit' = MarkovianFit(instanceData, stateSpace, Len(timeLabels),
                                    representativeTPM')
    /\ tsPc' = "fitted"
    /\ UNCHANGED <<csVars, inputVars, analysis, appVars, probeVars, text, timeLabels, instanceData, stateSpace, tpms_firstOrder,
                   homogeneityCheck, average_tpm_firstOrder, tpm_fullHistory,
                   weakStationarity>>

\* lines 262-296
TSReturn ==
    /\ tsPc = "fitted"
    /\ tpm_fullHistory' = FullHistoryTPM(timeLabels, instanceData, stateSpace)
    /\ weakStationarity' = WeakStationarity(instanceData, timeLabels)
    /\ tsPc' = "done"
    /\ UNCHANGED <<csVars, inputVars, analysis, appVars, probeVars, text, timeLabels, instanceData, stateSpace, tpms_firstOrder,
                   homogeneityCheck, average_tpm_firstOrder, representativeTPM, markovianFit>>

NextTS == TSParseThrows \/ TSParse \/ TSStepTPMs \/ TSHomogeneity \/ TSAverage \/ TSMarkovFit \/ TSReturn

SpecTS == InitTS /\ [][NextTS]_vars

\* the analysis of the panels with a state that is no number
InitMixed ==
    /\ variables = <<>>
    /\ theoreticalModels = <<>>
    /\ CSIdle
    /\ text \in MixedPanelTexts \cup RaggedPanelTexts
    /\ TSIdle
    /\ InputIdle
    /\ AppIdle
    /\ analysis = Null
    /\ order = 1

SpecMixed == InitMixed /\ [][NextTS]_vars

(***************************************************************************)
(* calculateTPM at every time index and order, and the average of lines    *)
(* 180-196 over what it returns                                            *)
(***************************************************************************)
InitTPM ==
    /\ variables = <<>>
    /\ theoreticalModels = <<>>
    /\ CSIdle
    /\ text \in ProbePanelTexts \cup RaggedPanelTexts
    /\ TSIdle
    /\ InputIdle
    /\ AppIdle
    /\ analysis = Null
    /\ order \in 0..MaxOrder

\* calculateTPM(timeLabels, instanceData, stateSpace, timeIndex, order) for the next
\* timeIndex, 0-based
CallCalculateTPM ==
    /\ tsPc = "done"
    /\ probeAverage = Undefined
    /\ Len(probeTPMs) < Len(timeLabels)
    /\ probeTPMs' = Append(probeTPMs,
                           [tpm |-> calculateTPM(instanceData, stateSpace, Len(probeTPMs), order),
                            label |-> <<"P", timeLabels[Len(probeTPMs) + 1]>>])
    /\ UNCHANGED <<csVars, inputVars, analysis, appVars, text, tsPc, tsLocals, order, probeAverage>>

\* lines 180-196 over the TPMs of all time indices
AverageProbes ==
    /\ tsPc = "done"
    /\ probeAverage = Undefined
    /\ Len(probeTPMs) = Len(timeLabels)
    /\ probeAverage' = AverageTPM(probeTPMs, stateSpace)
    /\ UNCHANGED <<csVars, inputVars, analysis, appVars, text, tsPc, tsLocals, order, probeTPMs>>

NextTPM == NextTS \/ CallCalculateTPM \/ AverageProbes

SpecTPM == InitTPM /\ [][NextTPM]_vars

(***************************************************************************)
(* Reading the input: detectAnalysisType, then parseInput, of either file  *)
(***************************************************************************)
InitInput ==
    /\ variables = <<>>
    /\ theoreticalModels = <<>>
    /\ CSIdle
    /\ text \in InputTexts
    /\ TSIdle
    /\ order = 1
    /\ lineage \in {"services", "analysisService"}
    /\ inputPc = "idle"
    /\ analysisType = Undefined
    /\ parsedInput = <<>>
    /\ inputError = Undefined
    /\ AppIdle
    /\ analysis = Null

\* typeUtils.ts detectAnalysisType(inputText)
DetectAnalysisType ==
    /\ lineage = "services"
    /\ inputPc = "idle"
    /\ analysisType' = detectAnalysisType(text)
    /\ inputPc' = "detected"
    /\ UNCHANGED <<csVars, tsVars, appVars, analysis, lineage, parsedInput, inputError>>

\* parserService.ts parseInput(text) returns
ParseInput ==
    /\ lineage = "services"
    /\ inputPc = "detected"
    /\ parseInput(text).error = <<>>
    /\ parsedInput' = parseInput(text).variables
    /\ inputPc' = "parsed"
    /\ UNCHANGED <<csVars, tsVars, appVars, analysis, lineage, analysisType, inputError>>

\* parserService.ts parseInput(text) throws
ParseInputThrows ==
    /\ lineage = "services"
    /\ inputPc = "detected"
    /\ parseInput(text).error # <<>>
    /\ inputError' = parseInput(text).error
    /\ inputPc' = "thrown"
    /\ UNCHANGED <<csVars, tsVars, appVars, analysis, lineage, analysisType, parsedInput>>

\* analysisService.ts detectAnalysisType(inputText)
DetectAnalysisTypeNumbered ==
    /\ lineage = "analysisService"
    /\ inputPc = "idle"
    /\ analysisType' = analysisService_detectAnalysisType(text)
    /\ inputPc' = "detected"
    /\ UNCHANGED <<csVars, tsVars, appVars, analysis, lineage, parsedInput, inputError>>

\* analysisService.ts parseInput(text)
ParseInputMatching ==
    /\ lineage = "analysisService"
    /\ inputPc = "detected"
    /\ parsedInput' = analysisService_parseInput(text)
    /\ inputPc' = "parsed"
    /\ UNCHANGED <<csVars, tsVars, appVars, analysis, lineage, analysisType, inputError>>

NextInput ==
    \/ DetectAnalysisType \/ ParseInput \/ ParseInputThrows
    \/ DetectAnalysisTypeNumbered \/ ParseInputMatching

SpecInput == InitInput /\ [][NextInput]_vars

(***************************************************************************)
(* App.tsx: the handlers.  React applies the state updates of one handler  *)
(* together; the computation of handleAnalyze runs in a later task with    *)
(* the inputText of the click.                                             *)
(***************************************************************************)
\* App.tsx line 412: crossSectionalResults?.variables || []
AppVariables == IF crossSectionalResults = Null THEN <<>> ELSE crossSectionalResults[1].variables

\* App.tsx line 593
dataVariableNames == [i \in 1..Len(AppVariables) |-> AppVariables[i].name]

\* App.tsx line 700: the Analyze button takes a click
AnalyzeEnabled == ~isLoading /\ areModelsValid(app_theoreticalModels, dataVariableNames)

\* App.tsx line 659: the panel of the theoretical models is shown
ModelsPanelShown == analysisService_detectAnalysisType(inputText) = "cross-sectional"

\* App.tsx lines 442-449: the click on Analyze, up to setTimeout
HandleAnalyze ==
    /\ AnalyzeEnabled
    /\ isLoading' = TRUE
    /\ error' = Null
    /\ crossSectionalResults' = Null
    /\ timeSeriesResults' = Null
    /\ pendingAnalyze' = <<inputText>>
    /\ UNCHANGED <<csVars, tsVars, inputVars, analysis, inputText, storedDatasets,
                   app_theoreticalModels, analysisMode>>

\* App.tsx lines 450-481: the deferred computation
AnalyzeTimeout ==
    /\ pendingAnalyze # Null
    /\ IF AnalysisThrows(pendingAnalyze[1])
       THEN /\ error' = <<ThrownMessage(pendingAnalyze[1])>>
            /\ analysisMode' = Null
            /\ crossSectionalResults' = Null
            /\ timeSeriesResults' = Null
       ELSE /\ analysisMode' = <<analysisService_detectAnalysisType(pendingAnalyze[1])>>
            /\ IF analysisService_detectAnalysisType(pendingAnalyze[1]) = "cross-sectional"
               THEN /\ crossSectionalResults' = <<FullResults(pendingAnalyze[1])>>
                    /\ UNCHANGED timeSeriesResults
               ELSE /\ timeSeriesResults' = <<PanelResults(pendingAnalyze[1])>>
                    /\ UNCHANGED crossSectionalResults
            /\ UNCHANGED error
    /\ isLoading' = FALSE
    /\ pendingAnalyze' = Null
    /\ UNCHANGED <<csVars, tsVars, inputVars, analysis, inputText, storedDatasets,
                   app_theoreticalModels>>

\* App.tsx line 634: the user edits the input text
SetInputText ==
    /\ \E value \in AppTexts : inputText' = value
    /\ UNCHANGED <<csVars, tsVars, inputVars, analysis, isLoading, error, storedDatasets,
                   app_theoreticalModels, analysisMode, crossSectionalResults,
                   timeSeriesResults, pendingAnalyze>>

\* App.tsx handleFileSelect, for one file that is read
HandleFileSelect ==
    /\ \E file \in AppFiles :
           IF \E d \in 1..Len(storedDatasets) : storedDatasets[d].name = file.name
           THEN /\ error' = <<"Dataset already exists.">>
                /\ UNCHANGED storedDatasets
           ELSE /\ storedDatasets' = Append(storedDatasets, file)
                /\ error' = Null
    /\ UNCHANGED <<csVars, tsVars, inputVars, analysis, inputText, isLoading,
                   app_theoreticalModels, analysisMode, crossSectionalResults,
                   timeSeriesResults, pendingAnalyze>>

\* App.tsx loadDataset
LoadDataset ==
    /\ \E d \in 1..Len(storedDatasets) : inputText' = storedDatasets[d].content
    /\ analysisMode' = Null
    /\ crossSectionalResults' = Null
    /\ timeSeriesResults' = Null
    /\ UNCHANGED <<csVars, tsVars, inputVars, analysis, isLoading, error, storedDatasets,
                   app_theoreticalModels, pendingAnalyze>>

\* App.tsx deleteDataset
DeleteDataset ==
    /\ \E d \in 1..Len(storedDatasets) :
           storedDatasets' = SelectSeq(storedDatasets,
                                       LAMBDA dataset : dataset.name # storedDatasets[d].name)
    /\ UNCHANGED <<csVars, tsVars, inputVars, analysis, inputText, isLoading, error,
                   app_theoreticalModels, analysisMode, crossSectionalResults,
                   timeSeriesResults, pendingAnalyze>>

\* App.tsx addModel
AddModel ==
    /\ ModelsPanelShown
    /\ \E id \in ModelIds :
           /\ \A m \in 1..Len(app_theoreticalModels) : app_theoreticalModels[m].id # id
           /\ app_theoreticalModels' =
                  Append(app_theoreticalModels,
                         [id |-> id, stateSpaces |-> EmptyMap,
                          jointProbabilities |-> EmptyMap])
    /\ UNCHANGED <<csVars, tsVars, inputVars, analysis, inputText, isLoading, error, storedDatasets,
                   analysisMode, crossSectionalResults, timeSeriesResults, pendingAnalyze>>

\* App.tsx deleteModel
DeleteModel ==
    /\ ModelsPanelShown
    /\ \E m \in 1..Len(app_theoreticalModels) :
           app_theoreticalModels' =
               SelectSeq(app_theoreticalModels,
                         LAMBDA model : model.id # app_theoreticalModels[m].id)
    /\ UNCHANGED <<csVars, tsVars, inputVars, analysis, inputText, isLoading, error, storedDatasets,
                   analysisMode, crossSectionalResults, timeSeriesResults, pendingAnalyze>>

\* App.tsx updateModel
updateModel(models, id, updated) ==
    [m \in 1..Len(models) |-> IF models[m].id = id THEN updated ELSE models[m]]

\* TheoreticalModelInput.tsx handleStateSpaceChange, through updateModel
HandleStateSpaceChange ==
    /\ ModelsPanelShown
    /\ \E m \in 1..Len(app_theoreticalModels), v \in 1..Len(dataVariableNames),
          value \in SpaceTexts :
           app_theoreticalModels' =
               updateModel(app_theoreticalModels, app_theoreticalModels[m].id,
                           handleStateSpaceChange(app_theoreticalModels[m], dataVariableNames,
                                                  dataVariableNames[v], value))
    /\ UNCHANGED <<csVars, tsVars, inputVars, analysis, inputText, isLoading, error, storedDatasets,
                   analysisMode, crossSectionalResults, timeSeriesResults, pendingAnalyze>>

\* TheoreticalModelInput.tsx handleProbabilityChange, through updateModel
HandleProbabilityChange ==
    /\ ModelsPanelShown
    /\ Len(dataVariableNames) > 0
    /\ \E m \in 1..Len(app_theoreticalModels), value \in ProbabilityTexts :
           \E s \in 1..Len(JointStateSpace(app_theoreticalModels[m], dataVariableNames)) :
               app_theoreticalModels' =
                   updateModel(app_theoreticalModels, app_theoreticalModels[m].id,
                       handleProbabilityChange(
                           app_theoreticalModels[m],
                           Join(JointStateSpace(app_theoreticalModels[m],
                                                dataVariableNames)[s], Comma),
                           value))
    /\ UNCHANGED <<csVars, tsVars, inputVars, analysis, inputText, isLoading, error, storedDatasets,
                   analysisMode, crossSectionalResults, timeSeriesResults, pendingAnalyze>>

InitApp ==
    /\ variables = <<>>
    /\ theoreticalModels = <<>>
    /\ CSIdle
    /\ text = <<>>
    /\ TSIdle
    /\ order = 1
    /\ InputIdle
    /\ AppIdle
    /\ analysis = Null

NextApp ==
    \/ HandleAnalyze \/ AnalyzeTimeout \/ SetInputText \/ HandleFileSelect
    \/ LoadDataset \/ DeleteDataset \/ AddModel \/ DeleteModel
    \/ HandleStateSpaceChange \/ HandleProbabilityChange

SpecApp == InitApp /\ [][NextApp]_vars

\* the step that ends the pending computation: in NextApp, AnalyzeTimeout
TimerTask == pendingAnalyze # Null /\ pendingAnalyze' = Null

\* the deferred computation is a timer task: it runs once it is pending
FairApp == InitApp /\ [][NextApp]_vars /\ WF_pendingAnalyze(TimerTask)

(***************************************************************************)
(* components/ModelFitResults.tsx: ModelFitTable.  A metric is a tuple:    *)
(* the two distances by their label, an MSE by the key it has in mse.      *)
(***************************************************************************)
HELLINGER == <<"Hellinger Distance">>

JENSEN_SHANNON == <<"Jensen-Shannon Distance">>

\* line 17: modelFitResults.filter(m => !m.error)
ValidModels(modelFitResults) ==
    SelectSeq(modelFitResults, LAMBDA m : "error" \notin DOMAIN m)

\* lines 22-28: the metrics that one valid model adds
MetricsOfModel(model) ==
    (IF "hellingerDistance" \in DOMAIN model THEN {HELLINGER} ELSE {})
        \cup (IF "jensenShannonDistance" \in DOMAIN model THEN {JENSEN_SHANNON} ELSE {})
        \cup (IF "mse" \in DOMAIN model THEN DOMAIN model.mse ELSE {})

\* lines 21-29
MetricSet(validModels) ==
    UNION {MetricsOfModel(validModels[i]) : i \in 1..Len(validModels)}

\* lines 52-57: currentScore !== undefined
HasScore(model, metric) ==
    IF metric = HELLINGER THEN "hellingerDistance" \in DOMAIN model
    ELSE IF metric = JENSEN_SHANNON THEN "jensenShannonDistance" \in DOMAIN model
    ELSE "mse" \in DOMAIN model /\ metric \in DOMAIN model.mse

\* lines 52-57: currentScore
CurrentScore(model, metric) ==
    IF metric = HELLINGER THEN model.hellingerDistance
    ELSE IF metric = JENSEN_SHANNON THEN model.jensenShannonDistance
    ELSE model.mse[metric]

\* a < b for two scores of one metric: distances are fixed-point numbers,
\* MSEs are rationals
ScoreLess(metric, a, b) ==
    IF metric \in {HELLINGER, JENSEN_SHANNON} THEN a < b ELSE RLt(a, b)

\* currentScore < Infinity
ScoreFinite(metric, a) == IF metric \in {HELLINGER, JENSEN_SHANNON} THEN TRUE ELSE ~IsNaN(a)

RECURSIVE BestUpTo(_, _, _)
\* lines 49-63: bestScore and winner after the first n valid models
BestUpTo(validModels, metric, n) ==
    IF n = 0 THEN [infinite |-> TRUE, bestScore |-> 0, winner |-> <<>>]
    ELSE IF ~HasScore(validModels[n], metric)
    THEN BestUpTo(validModels, metric, n - 1)
    ELSE IF BestUpTo(validModels, metric, n - 1).infinite
    THEN IF ScoreFinite(metric, CurrentScore(validModels[n], metric))
         THEN [infinite |-> FALSE, bestScore |-> CurrentScore(validModels[n], metric),
               winner |-> validModels[n].modelName]
         ELSE BestUpTo(validModels, metric, n - 1)
    ELSE IF ScoreLess(metric, CurrentScore(validModels[n], metric),
                      BestUpTo(validModels, metric, n - 1).bestScore)
    THEN [infinite |-> FALSE, bestScore |-> CurrentScore(validModels[n], metric),
          winner |-> validModels[n].modelName]
    ELSE BestUpTo(validModels, metric, n - 1)

\* lines 47-65
WinnersByMetric(validModels) ==
    [metric \in MetricSet(validModels) |->
        BestUpTo(validModels, metric, Len(validModels)).winner]

\* lines 67-71: the wins of the models, by name
WinCounts(modelNames, winnersByMetric) ==
    [name \in {modelNames[i] : i \in 1..Len(modelNames)} |->
        Cardinality({metric \in DOMAIN winnersByMetric :
                        winnersByMetric[metric] # <<>> /\ winnersByMetric[metric] = name})]

RECURSIVE MostWinsUpTo(_, _, _)
\* lines 74-81: maxWins and overallWinner after the first n entries of winCounts
MostWinsUpTo(names, winCounts, n) ==
    IF n = 0 THEN [maxWins |-> -1, overallWinner |-> <<>>]
    ELSE IF winCounts[names[n]] > MostWinsUpTo(names, winCounts, n - 1).maxWins
    THEN [maxWins |-> winCounts[names[n]], overallWinner |-> names[n]]
    ELSE MostWinsUpTo(names, winCounts, n - 1)

\* lines 73-88: the keys of winCounts are the names in first-seen order
OverallWinner(modelNames, winCounts) ==
    IF Cardinality({name \in DOMAIN winCounts :
                       winCounts[name]
                           = MostWinsUpTo(Dedup(modelNames), winCounts,
                                          Len(Dedup(modelNames))).maxWins}) > 1
    THEN <<>>
    ELSE MostWinsUpTo(Dedup(modelNames), winCounts, Len(Dedup(modelNames))).overallWinner

\* lines 12-91: the value of the useMemo, null as the empty sequence
ModelFitTable(modelFitResults) ==
    IF Len(modelFitResults) = 0 THEN Null
    ELSE << [modelNames |-> [i \in 1..Len(modelFitResults) |-> modelFitResults[i].modelName],
             winnersByMetric |-> WinnersByMetric(ValidModels(modelFitResults)),
             overallWinner |->
                 OverallWinner(
                     [i \in 1..Len(modelFitResults) |-> modelFitResults[i].modelName],
                     WinCounts([i \in 1..Len(modelFitResults) |->
                                   modelFitResults[i].modelName],
                               WinnersByMetric(ValidModels(modelFitResults))))] >>

\* valid models, models that fail validation, and both
TableKinds == {"valid", "sum09", "order"}

InitTable ==
    /\ variables \in FitDataSets
    /\ theoreticalModels \in ModelLists(TableKinds, MaxModels, variables)
    /\ CSIdle
    /\ text = <<>>
    /\ TSIdle
    /\ InputIdle
    /\ AppIdle
    /\ analysis = Null
    /\ order = 1

\* App.tsx lines 786-788: ModelFitTable is rendered with the modelFit of the report
RenderModelFitTable ==
    /\ pc = "done"
    /\ pc' = "rendered"
    /\ analysis' = ModelFitTable(modelFit)
    /\ UNCHANGED <<variables, theoreticalModels, modelIdx, reportVars, tsVars, inputVars,
                   appVars>>

NextTable == NextCS \/ RenderModelFitTable

SpecTable == InitTable /\ [][NextTable]_vars

(***************************************************************************)
(* Properties of the cross-sectional analysis                              *)
(***************************************************************************)
Finished == pc = "done"

Analyzed == pc \in {"models", "done"}

NumSamples == IF Len(variables) = 0 THEN 0 ELSE Len(variables[1].data)

\* the fit records that carry the name of a model
FitRecordsOf(model) == SelectSeq(modelFit, LAMBDA rec : rec.modelName = model.name)

Metrics == {"hellingerDistance", "jensenShannonDistance", "mse"}

ModelLines(model) == Split(Trim(model.distribution), "\n")

ModelHeader(model) == TrimAll(Split(ModelLines(model)[1], ","))

HasProbabilityColumn(model) == IndexOf(ModelHeader(model), PROBABILITY) # -1

\* the header's columns before 'Probability'
ModelVarNames(model) ==
    SubSeq(ModelHeader(model), 1, IndexOf(ModelHeader(model), PROBABILITY))

\* the model's header is accepted, its rows are read without an error, there is
\* a row read, and the probabilities read add up to a value more than 1e-5 away
\* from 1
RowsSumOff(model) ==
    IF Len(ModelLines(model)) < 2 \/ ~HasProbabilityColumn(model) THEN FALSE
    ELSE IF ModelVarNames(model) # Names(variables) THEN FALSE
    ELSE LET rows == ParseRows(ModelLines(model), ModelHeader(model),
                               IndexOf(ModelHeader(model), PROBABILITY))
         IN  IF rows.error # Undefined \/ Len(rows.pmf) = 0 THEN FALSE
             ELSE RGtInv(RAbs(RSub(rows.totalProb, One)), InvEps5)

\* C1: when the analysis has returned, every model whose probability rows add
\* up to a value more than 1e-5 away from 1 has a fit record, and its fit
\* records carry an error and no hellingerDistance, jensenShannonDistance or mse.
C1_SumMismatchIsAnError ==
    Finished =>
        \A k \in 1..Len(theoreticalModels) :
            RowsSumOff(theoreticalModels[k]) =>
                LET recs == FitRecordsOf(theoreticalModels[k])
                IN  /\ Len(recs) > 0
                    /\ \A i \in 1..Len(recs) :
                           /\ "error" \in DOMAIN recs[i]
                           /\ DOMAIN recs[i] \cap Metrics = {}

\* a model whose rows add up to 0.9 has been fitted and scored
C1_SumMismatchScored ==
    /\ Finished
    /\ \E k \in 1..Len(theoreticalModels) :
           /\ RowsSumOff(theoreticalModels[k])
           /\ theoreticalModels[k].id \in DOMAIN theoreticalJointPMFs
           /\ RSum(MapValues(theoreticalJointPMFs[theoreticalModels[k].id])) = <<9, 10>>
           /\ \E i \in 1..Len(modelFit) :
                  /\ modelFit[i].modelName = theoreticalModels[k].name
                  /\ Metrics \subseteq DOMAIN modelFit[i]

FailsValidation(model) == parseTheoreticalModel(model, Names(variables)).error # Undefined

WithoutModel(k) ==
    SubSeq(theoreticalModels, 1, k - 1)
        \o SubSeq(theoreticalModels, k + 1, Len(theoreticalModels))

\* C2: the analysis throws only for an empty dataset; and when it has returned,
\* for every model that failed validation the report is the report of the run
\* without that model (the empirical parts, the theoretical entries and the fit
\* records of the other models), but for the fit records under that model's name.
C2_FailingModelIsIsolated ==
    /\ pc = "thrown" => EmptyDataset(variables)
    /\ Finished =>
           \A k \in 1..Len(theoreticalModels) :
               FailsValidation(theoreticalModels[k]) =>
                   LET other == performFullAnalysis(variables, WithoutModel(k))
                   IN  /\ empiricalJointPMF = other.empiricalJointPMF
                       /\ single_vars = other.single_vars
                       /\ pairwise = other.pairwise
                       /\ conditional = other.conditional
                       /\ theoreticalJointPMFs = other.theoreticalJointPMFs
                       /\ SelectSeq(modelFit,
                                    LAMBDA rec : rec.modelName # theoreticalModels[k].name)
                              = other.modelFit

\* a run with a scored model followed by a model that failed validation
C2_FailingAfterScored ==
    /\ Finished
    /\ Len(theoreticalModels) = 2
    /\ ~FailsValidation(theoreticalModels[1])
    /\ FailsValidation(theoreticalModels[2])
    /\ Len(modelFit) = 2
    /\ Metrics \subseteq DOMAIN modelFit[1]
    /\ "error" \in DOMAIN modelFit[2]

\* the model is invalid: its validation failed or its parsed table is empty
Invalid(model) ==
    \/ FailsValidation(model)
    \/ Len(parseTheoreticalModel(model, Names(variables)).pmf) = 0

\* C3: when the analysis has returned, modelFit holds exactly one record per
\* theoretical model, in the order of the models, each under its model's name;
\* the record of an invalid model (one whose parsed table is empty included)
\* carries the model name and the error only.
C3_OneRecordPerModel ==
    Finished =>
        IF Len(modelFit) # Len(theoreticalModels) THEN FALSE
        ELSE \A k \in 1..Len(theoreticalModels) :
                 /\ modelFit[k].modelName = theoreticalModels[k].name
                 /\ Invalid(theoreticalModels[k]) =>
                        DOMAIN modelFit[k] = {"modelName", "error"}

\* a model whose table parsed to no entry has left no fit record
C3_EmptyTableDropped ==
    /\ Finished
    /\ \E k \in 1..Len(theoreticalModels) :
           /\ ~FailsValidation(theoreticalModels[k])
           /\ Len(parseTheoreticalModel(theoreticalModels[k], Names(variables)).pmf) = 0
           /\ Len(FitRecordsOf(theoreticalModels[k])) = 0

\* C4: a model whose header names before 'Probability' are not the data's
\* names in the data's order is not parsed to a PMF: parseTheoreticalModel
\* returns an error (the order error when there is a row to read), the analysis
\* records that error as the model's one fit record and stores no theoretical
\* PMF or metrics for the model.
C4_HeaderOrderEnforced ==
    Finished =>
        \A k \in 1..Len(theoreticalModels) :
            LET model == theoreticalModels[k]
                parsed == parseTheoreticalModel(model, Names(variables))
            IN  (HasProbabilityColumn(model) /\ ModelVarNames(model) # Names(variables)) =>
                    /\ parsed.error # Undefined
                    /\ parsed.pmf = EmptyMap
                    /\ Len(ModelLines(model)) >= 2 =>
                           parsed.error = <<"Model variable order does not match data order",
                                            ModelVarNames(model), Names(variables)>>
                    /\ FitRecordsOf(model) = <<[modelName |-> model.name,
                                                error |-> parsed.error]>>
                    /\ model.id \notin DOMAIN theoreticalJointPMFs
                    /\ \A v \in DOMAIN single_vars :
                           model.id \notin DOMAIN single_vars[v].theoretical

\* a model that lists the data's two names in the other order has been rejected
C4_SwappedHeaderRejected ==
    /\ Finished
    /\ Len(variables) = 2
    /\ \E k \in 1..Len(theoreticalModels) :
           /\ ModelVarNames(theoreticalModels[k]) = Reverse(Names(variables))
           /\ \E i \in 1..Len(modelFit) :
                  /\ modelFit[i].modelName = theoreticalModels[k].name
                  /\ "error" \in DOMAIN modelFit[i]

\* the tuple of sample i: the values of all variables in that row
SampleTuple(i) == [j \in 1..Len(variables) |-> variables[j].data[i]]

\* C5: getEmpiricalJointPMF maps every observed tuple key to the number of
\* samples with that tuple divided by the number of samples, holds no other
\* key, and its probabilities add up to 1; for a dataset without samples it is
\* the empty PMF. The report's empiricalJointPMF is that PMF.
C5_EmpiricalJointPMF ==
    LET pmf == getEmpiricalJointPMF(variables)
        n == NumSamples
        count(key) ==
            LET i0 == CHOOSE i \in 1..n : Outcome(variables, i) = key
            IN  Cardinality({i \in 1..n : SampleTuple(i) = SampleTuple(i0)})
    IN  /\ Analyzed => empiricalJointPMF = pmf
        /\ IF n = 0 THEN pmf = EmptyMap
           ELSE /\ KeySet(pmf) = {Outcome(variables, i) : i \in 1..n}
                /\ Cardinality(KeySet(pmf)) = Len(pmf)
                /\ \A e \in 1..Len(pmf) : pmf[e].v = Rat(count(pmf[e].k), n)
                /\ RSum(MapValues(pmf)) = One

\* three samples with two distinct tuples have been counted
C5_RepeatedTupleCounted ==
    /\ Analyzed
    /\ NumSamples = 3
    /\ Len(empiricalJointPMF) = 2
    /\ \E e \in 1..2 : empiricalJointPMF[e].v = <<2, 3>>

\* the entries of a joint PMF over numVars variables whose tuple has the
\* values vals at the positions poss
EntriesWith(joint, numVars, poss, vals) ==
    SelectSeq(joint, LAMBDA e : /\ Len(Split(e.k, ",")) = numVars
                                /\ \A p \in 1..Len(poss) : Split(e.k, ",")[poss[p]] = vals[p])

\* the probability a joint PMF gives to the values vals at the positions poss
ProbOf(joint, numVars, poss, vals) == RSum(MapValues(EntriesWith(joint, numVars, poss, vals)))

\* C6: for the empirical joint PMF over k variables and every position i,
\* getMarginalPMF(joint, [i], k) maps each observed value of variable i to the
\* sum of the joint probabilities of the tuples with that value at position i,
\* and the marginal's probabilities add up to 1; the report's distribution of
\* the variable holds these probabilities.
C6_MarginalPMF ==
    Analyzed =>
        \A i \in 1..Len(variables) :
            LET marginal == getMarginalPMF(empiricalJointPMF, <<i>>, Len(variables))
                reported == single_vars[variables[i].id].empirical.pmf
            IN  /\ KeySet(marginal) = {variables[i].data[s] : s \in 1..NumSamples}
                /\ Cardinality(KeySet(marginal)) = Len(marginal)
                /\ \A e \in 1..Len(marginal) :
                       marginal[e].v = ProbOf(empiricalJointPMF, Len(variables), <<i>>,
                                              <<marginal[e].k>>)
                /\ RSum(MapValues(marginal)) = One
                /\ Len(reported) = Len(marginal)
                /\ RSum([d \in 1..Len(reported) |-> reported[d].probability]) = One

\* a value shared by two joint outcomes has been summed into the marginal
C6_SharedValueSummed ==
    /\ Analyzed
    /\ Len(variables) = 2
    /\ Len(empiricalJointPMF) = 3
    /\ Len(single_vars[variables[1].id].empirical.pmf) = 2

\* the value of a distribution entry for the PMF key of a variable of a type
DistValue(key, type) == IF type = "Numerical" THEN ToNumber(key) ELSE key

\* the conditional distributions of target given givenVar in the list results
\* are those of the joint PMF: one for each value of givenVar with a marginal
\* that is not below 1e-9, with probabilities joint / marginal that add up to
\* 1, and none for any other value
ConditionalsMatch(results, joint, numVars, t, g, target, givenVar) ==
    LET givenVals == {Split(joint[e].k, ",")[g] :
                         e \in {x \in 1..Len(joint) : Len(Split(joint[x].k, ",")) = numVars}}
        targetVals == {Split(joint[e].k, ",")[t] :
                          e \in {x \in 1..Len(joint) : Len(Split(joint[x].k, ",")) = numVars}}
        forValue(y) == SelectSeq(results, LAMBDA r : r.conditionValue = y)
        marginal(y) == ProbOf(joint, numVars, <<g>>, <<y>>)
    IN  /\ \A r \in 1..Len(results) :
               /\ results[r].conditionValue \in givenVals
               /\ results[r].conditionalVariable = target.name
               /\ results[r].givenVariable = givenVar.name
        /\ \A y \in givenVals :
               IF RLtInv(marginal(y), InvEps9) THEN Len(forValue(y)) = 0
               ELSE /\ Len(forValue(y)) = 1
                    /\ LET distn == forValue(y)[1].distribution
                       IN  /\ Len(distn) = Cardinality(targetVals)
                           /\ RSum([d \in 1..Len(distn) |-> distn[d].probability]) = One
                           /\ \A x \in targetVals :
                                  \E d \in 1..Len(distn) :
                                      /\ distn[d].value = DistValue(x, target.type)
                                      /\ distn[d].probability =
                                             RDiv(ProbOf(joint, numVars, <<t, g>>, <<x, y>>),
                                                  marginal(y))

\* C7: for every pair of variables and both directions, the empirical
\* conditional distributions of the report, and the theoretical ones of every
\* fitted model, hold for each value y of the conditioning variable with a
\* non-zero marginal exactly one distribution, whose probabilities are
\* joint(x, y) / marginal(y) and add up to 1, and hold none for a value whose
\* marginal is zero.
C7_ConditionalDistributions ==
    Analyzed =>
        \A i \in 1..Len(variables) : \A j \in (i + 1)..Len(variables) :
            LET var1 == variables[i]
                var2 == variables[j]
                entry == conditional[PairKey(var1, var2)]
                n == Len(variables)
            IN  /\ ConditionalsMatch(entry.empirical[var2.name], empiricalJointPMF, n,
                                     i, j, var1, var2)
                /\ ConditionalsMatch(entry.empirical[var1.name], empiricalJointPMF, n,
                                     j, i, var2, var1)
                /\ \A m \in DOMAIN entry.theoretical :
                       /\ ConditionalsMatch(entry.theoretical[m][var2.name],
                                            theoreticalJointPMFs[m], n, i, j, var1, var2)
                       /\ ConditionalsMatch(entry.theoretical[m][var1.name],
                                            theoreticalJointPMFs[m], n, j, i, var2, var1)

\* a model with an outcome of probability 0 has been fitted to two variables:
\* the value of the conditioning variable with marginal 0 has no distribution,
\* every other value has one
C7_ZeroMarginalSkipped ==
    /\ Finished
    /\ Len(variables) = 2
    /\ NumSamples = 3
    /\ \E m \in DOMAIN theoreticalJointPMFs :
           /\ \E e \in 1..Len(theoreticalJointPMFs[m]) : theoreticalJointPMFs[m][e].v = Zero
           /\ Len(theoreticalJointPMFs[m]) = 3
           /\ Len(conditional[PairKey(variables[1], variables[2])]
                      .theoretical[m][variables[2].name]) = 2
    /\ Len(conditional[PairKey(variables[1], variables[2])].empirical[variables[2].name]) = 2

(***************************************************************************)
(* Properties of the time-series analysis                                  *)
(***************************************************************************)
TPMsComputed == tsPc \in {"tpms", "checked", "averaged", "fitted", "done"}

HomogeneityChecked == tsPc \in {"checked", "averaged", "fitted", "done"}

MarkovFitted == tsPc \in {"fitted", "done"}

NumTimeSteps == Len(timeLabels)

\* the instances in state f at step t (1-based)
InstancesAt(t, f) == {i \in 1..Len(instanceData) : instanceData[i][t] = f}

\* the instances in state f at step t and in state s at step t + 1
InstancesMoving(t, f, s) == {i \in InstancesAt(t, f) : instanceData[i][t + 1] = s}

\* C8: for a panel of T time steps the analysis produces exactly T - 1
\* first-order TPMs; the TPM of the step from t to t + 1 has exactly the states
\* observed at t as from-states, its entry (f, s) is the number of instances in
\* f at t and in s at t + 1 divided by the number of instances in f at t, for
\* every state s of the state space, and each of its rows adds up to 1.
C8_StepTPMs ==
    TPMsComputed =>
        /\ NumTimeSteps = Len(Split(Trim(text), "\n")) - 1
        /\ Len(tpms_firstOrder) = NumTimeSteps - 1
        /\ \A t \in 1..Len(tpms_firstOrder) :
               LET tpm == tpms_firstOrder[t].tpm
               IN  /\ KeySet(tpm) = {instanceData[i][t] : i \in 1..Len(instanceData)}
                   /\ Cardinality(KeySet(tpm)) = Len(tpm)
                   /\ \A r \in 1..Len(tpm) :
                          /\ MapKeys(tpm[r].v) = stateSpace
                          /\ \A e \in 1..Len(tpm[r].v) :
                                 tpm[r].v[e].v =
                                     Rat(Cardinality(InstancesMoving(t, tpm[r].k, tpm[r].v[e].k)),
                                         Cardinality(InstancesAt(t, tpm[r].k)))
                          /\ RSum(MapValues(tpm[r].v)) = One

\* a panel of three steps has two step TPMs, one of them with two from-states
\* and a row that splits its mass
C8_TwoStepTPMs ==
    /\ tsPc = "done"
    /\ NumTimeSteps = 3
    /\ Len(tpms_firstOrder) = 2
    /\ \E t \in 1..2 :
           /\ Len(tpms_firstOrder[t].tpm) = 2
           /\ \E r \in 1..2 : tpms_firstOrder[t].tpm[r].v[1].v = Half

\* the unordered pairs of 1..n in the order (1,2), (1,3), ..., (2,3), ...
UnorderedPairs(n) == {<<i, j>> \in (1..n) \X (1..n) : i < j}

\* C9: the homogeneity check holds one Hellinger distance for every unordered
\* pair of step TPMs, under the label of the pair, and one generalized
\* Jensen-Shannon distance of all step TPMs; isHomogeneous is true exactly when
\* every pairwise distance is <= 0.5 and the generalized distance is <= 0.5.
\* With fewer than two step TPMs the check is homogeneous, with no pairwise
\* distance and the generalized distance 0.
C9_HomogeneityCheck ==
    HomogeneityChecked =>
        LET n == Len(tpms_firstOrder)
            hd == homogeneityCheck.hellingerDistances
        IN  IF n < 2
            THEN homogeneityCheck =
                     [hellingerDistances |-> <<>>, gjsDistance |-> 0, isHomogeneous |-> TRUE]
            ELSE /\ Len(hd) = Cardinality(UnorderedPairs(n))
                 /\ \A p \in UnorderedPairs(n) :
                        Cardinality({r \in 1..Len(hd) :
                            /\ hd[r].pair = <<tpms_firstOrder[p[1]].label, "vs",
                                              tpms_firstOrder[p[2]].label>>
                            /\ hd[r].distance =
                                   calculateHellingerDistanceTPM(tpms_firstOrder[p[1]].tpm,
                                                                 tpms_firstOrder[p[2]].tpm)})
                            = 1
                 /\ homogeneityCheck.gjsDistance =
                        calculateGJS_TPM_Distance_normalized(
                            [t \in 1..n |-> tpms_firstOrder[t].tpm])
                 /\ homogeneityCheck.isHomogeneous
                        <=> /\ \A r \in 1..Len(hd) : 2 * hd[r].distance <= FPScale
                            /\ 2 * homogeneityCheck.gjsDistance <= FPScale

\* a panel whose two step TPMs are more than 0.5 apart in Hellinger distance and
\* not more than 0.5 apart in the generalized distance was found inhomogeneous
C9_HellingerAloneDecides ==
    /\ tsPc = "done"
    /\ Len(tpms_firstOrder) = 2
    /\ ~homogeneityCheck.isHomogeneous
    /\ 2 * homogeneityCheck.hellingerDistances[1].distance > FPScale
    /\ 2 * homogeneityCheck.gjsDistance <= FPScale

\* the from-states of all step TPMs
AllFromStates == UNION {KeySet(tpms_firstOrder[t].tpm) : t \in 1..Len(tpms_firstOrder)}

\* the sum over all step TPMs of their entry (f, s), 0 where a step has no row f
SumOverSteps(f, s) ==
    RSum([t \in 1..Len(tpms_firstOrder) |->
             IF MapHas(tpms_firstOrder[t].tpm, f)
             THEN MapGet0(MapGet(tpms_firstOrder[t].tpm, f), s) ELSE Zero])

\* the TPM is the time average of the step TPMs
IsTimeAverage(tpm) ==
    /\ KeySet(tpm) = AllFromStates
    /\ Cardinality(KeySet(tpm)) = Len(tpm)
    /\ \A r \in 1..Len(tpm) :
           /\ MapKeys(tpm[r].v) = stateSpace
           /\ \A e \in 1..Len(tpm[r].v) :
                  tpm[r].v[e].v = RDiv(SumOverSteps(tpm[r].k, tpm[r].v[e].k),
                                       <<NumTimeSteps - 1, 1>>)

\* C10: the representative TPM is the first step's TPM when the homogeneity
\* check said homogeneous (the empty TPM when there is no step), and otherwise
\* the time-averaged TPM, whose entry (f, s) is the sum over all T - 1 step TPMs
\* of their entry (f, s), 0 where a step lacks the from-state f, divided by
\* T - 1; the Markov approximation is computed from that TPM.
C10_RepresentativeTPM ==
    MarkovFitted =>
        /\ IF homogeneityCheck.isHomogeneous
           THEN representativeTPM =
                    (IF Len(tpms_firstOrder) = 0 THEN EmptyMap ELSE tpms_firstOrder[1].tpm)
           ELSE /\ representativeTPM = average_tpm_firstOrder.tpm
                /\ IsTimeAverage(representativeTPM)
        /\ markovianFit.markovApproximationPMF =
               MarkovApproximationPMF(stateSpace, NumTimeSteps, markovianFit.initialStatePMF,
                                      representativeTPM)

\* an inhomogeneous panel was fitted with the time average, which is not the
\* first step's TPM
C10_AverageUsed ==
    /\ tsPc = "done"
    /\ ~homogeneityCheck.isHomogeneous
    /\ representativeTPM # tpms_firstOrder[1].tpm
    /\ \E r \in 1..Len(representativeTPM) :
           \E e \in 1..Len(representativeTPM[r].v) :
               representativeTPM[r].v[e].v \notin {Zero, One}

\* the panel is rectangular with at least one instance: every data row has as
\* many cells as the header, and the header has more than the time column
RectangularPanel ==
    /\ Len(PanelHeader(text)) >= 2
    /\ \A r \in 1..Len(PanelRows(text)) : Len(PanelRows(text)[r]) = Len(PanelHeader(text))

\* the sum of the entries (f, s) of the TPMs computed with enough history
SumOverProbes(f, s) ==
    RSum([t \in 1..Len(probeTPMs) |->
             IF t - 1 >= order THEN TPMGet0(probeTPMs[t].tpm, f, s) ELSE Zero])

\* C11: calculateTPM returns the empty TPM whenever timeIndex < order; the
\* analysis of a rectangular panel with at least one instance never throws and
\* returns a complete result, with no step TPM, an empty average and an empty
\* representative TPM for a panel of one time step; in the average an empty
\* TPM adds zero to every entry and still counts in the divisor.
C11_InsufficientHistory ==
    /\ \A t \in 1..Len(probeTPMs) : t - 1 < order => probeTPMs[t].tpm = EmptyMap
    /\ tsPc = "thrown" => ~RectangularPanel
    /\ tsPc = "done" =>
           /\ Len(tpms_firstOrder) = NumTimeSteps - 1
           /\ Len(weakStationarity.mean) = NumTimeSteps
           /\ Len(weakStationarity.variance) = NumTimeSteps
           /\ Len(markovianFit.markovApproximationPMF) = Len(stateSpace) ^ NumTimeSteps
           /\ tpm_fullHistory.tpm # EmptyMap
           /\ NumTimeSteps = 1 =>
                  /\ tpms_firstOrder = <<>>
                  /\ average_tpm_firstOrder.tpm = EmptyMap
                  /\ representativeTPM = EmptyMap
                  /\ homogeneityCheck.isHomogeneous
    /\ probeAverage # Undefined =>
           /\ KeySet(probeAverage) =
                  UNION {KeySet(probeTPMs[t].tpm) : t \in 1..Len(probeTPMs)}
           /\ \A r \in 1..Len(probeAverage) :
                  /\ MapKeys(probeAverage[r].v) = stateSpace
                  /\ \A e \in 1..Len(probeAverage[r].v) :
                         probeAverage[r].v[e].v =
                             RDiv(SumOverProbes(probeAverage[r].k, probeAverage[r].v[e].k),
                                  <<NumTimeSteps, 1>>)

\* a panel of three steps at order 2: the TPMs of the first two indices are
\* empty, the third is not, and its certain transition averages to 1/3
C11_EmptyTPMsAveraged ==
    /\ tsPc = "done"
    /\ order = 2
    /\ Len(probeTPMs) = 3
    /\ probeTPMs[1].tpm = EmptyMap
    /\ probeTPMs[2].tpm = EmptyMap
    /\ probeTPMs[3].tpm # EmptyMap
    /\ probeAverage # Undefined
    /\ \E r \in 1..Len(probeAverage) :
           \E e \in 1..Len(probeAverage[r].v) : probeAverage[r].v[e].v = <<1, 3>>

(***************************************************************************)
(* Properties of the distances                                             *)
(***************************************************************************)
\* the two maps give every key of either the same probability, a missing key
\* counting as 0
SameOnUnion(p, q) == \A k \in KeySet(p) \cup KeySet(q) : MapGet0(p, k) = MapGet0(q, k)

\* h is a Hellinger distance of p and q as the claim describes it
HellingerLaws(h, p, q) ==
    /\ h = calculateHellingerDistance(q, p)
    /\ 0 <= h
    /\ h <= FPScale
    /\ h = 0 <=> SameOnUnion(p, q)

\* the scored models of the run: those with a stored table and a fit record
ScoredModels ==
    {k \in 1..Len(theoreticalModels) :
        /\ theoreticalModels[k].id \in DOMAIN theoreticalJointPMFs
        /\ \E i \in 1..Len(modelFit) :
               /\ modelFit[i].modelName = theoreticalModels[k].name
               /\ "hellingerDistance" \in DOMAIN modelFit[i]}

\* the fit record of a scored model
ScoreOf(k) ==
    modelFit[CHOOSE i \in 1..Len(modelFit) :
                 /\ modelFit[i].modelName = theoreticalModels[k].name
                 /\ "hellingerDistance" \in DOMAIN modelFit[i]]

\* C12: the Hellinger distance the analysis reports for the empirical joint PMF
\* and a model's table, and for the full-history PMF and the Markov
\* approximation, is the same with the arguments swapped, lies in [0, 1], and
\* is 0 exactly when the two PMFs agree on every key of either.
C12_HellingerLaws ==
    /\ Finished =>
           \A k \in ScoredModels :
               HellingerLaws(ScoreOf(k).hellingerDistance, empiricalJointPMF,
                             theoreticalJointPMFs[theoreticalModels[k].id])
    /\ MarkovFitted =>
           HellingerLaws(markovianFit.hellingerDistance, markovianFit.fullHistoryPMF,
                         markovianFit.markovApproximationPMF)

\* a scored model whose table holds more than the unit mass is further than 1
\* from the empirical joint PMF
C12_DistanceAboveOne ==
    /\ Finished
    /\ \E k \in ScoredModels :
           /\ RLt(One, RSum(MapValues(theoreticalJointPMFs[theoreticalModels[k].id])))
           /\ ScoreOf(k).hellingerDistance > FPScale

\* d is the distance of PMFs that are all the same, or is positive
DivergenceLaws(d, same) ==
    /\ d >= 0
    /\ d = 0 <=> same

\* the step TPMs give every transition the same probability
SameStepTPMs ==
    \A i, j \in 1..Len(tpms_firstOrder) :
        \A f \in AllFromStates :
            \A s \in 1..Len(stateSpace) :
                TPMGet0(tpms_firstOrder[i].tpm, f, stateSpace[s])
                    = TPMGet0(tpms_firstOrder[j].tpm, f, stateSpace[s])

\* C13: every generalized Jensen-Shannon value the analysis reports (for the
\* empirical joint PMF and a model's table, for the full-history PMF and the
\* Markov approximation, for the step TPMs) is >= 0, and is 0 exactly when the
\* PMFs compared give every key the same probability.
C13_DivergenceLaws ==
    /\ Finished =>
           \A k \in ScoredModels :
               DivergenceLaws(ScoreOf(k).jensenShannonDistance,
                              SameOnUnion(empiricalJointPMF,
                                          theoreticalJointPMFs[theoreticalModels[k].id]))
    /\ MarkovFitted =>
           DivergenceLaws(markovianFit.jensenShannonDistance,
                          SameOnUnion(markovianFit.fullHistoryPMF,
                                      markovianFit.markovApproximationPMF))
    /\ (HomogeneityChecked /\ Len(tpms_firstOrder) >= 2) =>
           DivergenceLaws(homogeneityCheck.gjsDistance, SameStepTPMs)

\* a scored model whose table differs from the empirical joint PMF is at
\* Jensen-Shannon distance 0 from it, and at a positive Hellinger distance
C13_ZeroForDifferentPMFs ==
    /\ Finished
    /\ \E k \in ScoredModels :
           /\ ~SameOnUnion(empiricalJointPMF, theoreticalJointPMFs[theoreticalModels[k].id])
           /\ ScoreOf(k).jensenShannonDistance = 0
           /\ ScoreOf(k).hellingerDistance > 0

(***************************************************************************)
(* Properties of the pairs of variables                                    *)
(***************************************************************************)
\* the pairs of columns i < j of the dataset
VariablePairs == {<<i, j>> \in (1..Len(variables)) \X (1..Len(variables)) : i < j}

\* the two ids, the smaller one first, joined by a hyphen
CanonicalKey(a, b) == IF StrLess(b, a) THEN b \o <<"-">> \o a ELSE a \o <<"-">> \o b

\* the conditional results listed under the given variable's name are those of
\* the target given that variable, one at least
DirectionHeld(results, target, givenVar) ==
    /\ Len(results[givenVar.name]) >= 1
    /\ \A c \in 1..Len(results[givenVar.name]) :
           /\ results[givenVar.name][c].conditionalVariable = target.name
           /\ results[givenVar.name][c].givenVariable = givenVar.name

\* C14: once the empirical analysis is done, the report holds exactly one
\* pairwise record and exactly one conditional entry for every pair of columns
\* i < j, n(n-1)/2 of each; the key of the conditional entry is the two ids,
\* the smaller first, joined by a hyphen, the same whichever variable is named
\* first; and the entry holds the distributions of each variable given the
\* other.
C14_OneEntryPerPair ==
    Analyzed =>
        /\ 2 * Len(pairwise) = Len(variables) * (Len(variables) - 1)
        /\ 2 * Cardinality(DOMAIN conditional) = Len(variables) * (Len(variables) - 1)
        /\ \A p \in VariablePairs :
               LET var1 == variables[p[1]]
                   var2 == variables[p[2]]
               IN  /\ Cardinality({r \in 1..Len(pairwise) :
                                      /\ pairwise[r].var1_id = var1.id
                                      /\ pairwise[r].var2_id = var2.id
                                      /\ pairwise[r].var1_name = var1.name
                                      /\ pairwise[r].var2_name = var2.name}) = 1
                   /\ Cardinality({r \in 1..Len(pairwise) :
                                      {pairwise[r].var1_id, pairwise[r].var2_id}
                                          = {var1.id, var2.id}}) = 1
                   /\ PairKey(var1, var2) = CanonicalKey(var1.id, var2.id)
                   /\ PairKey(var2, var1) = PairKey(var1, var2)
                   /\ CanonicalKey(var1.id, var2.id) \in DOMAIN conditional
                   /\ DOMAIN conditional[CanonicalKey(var1.id, var2.id)].empirical
                          = {var1.name, var2.name}
                   /\ DirectionHeld(conditional[CanonicalKey(var1.id, var2.id)].empirical,
                                    var1, var2)
                   /\ DirectionHeld(conditional[CanonicalKey(var1.id, var2.id)].empirical,
                                    var2, var1)

\* a dataset of three columns has three pairwise records and three
\* conditional entries, one of them for a pair whose first column has the
\* larger id
C14_ThreePairs ==
    /\ Finished
    /\ Len(variables) = 3
    /\ Len(pairwise) = 3
    /\ Cardinality(DOMAIN conditional) = 3
    /\ StrLess(variables[2].id, variables[1].id)
    /\ (variables[2].id \o <<"-">> \o variables[1].id) \in DOMAIN conditional

(***************************************************************************)
(* Properties of the reading of the input                                  *)
(***************************************************************************)
InputRead == inputPc \in {"parsed", "thrown"}

\* the lines after the header, blank lines apart
DataRows(input) ==
    IF NonBlankLines(input) = <<>> THEN <<>> ELSE Tail(NonBlankLines(input))

\* the r-th data row has another number of cells than the header
WrongColumnCount(input, r) ==
    Len(Split(DataRows(input)[r], ",")) # Len(Split(NonBlankLines(input)[1], ","))

\* the r-th data row has a cell of white space only
HasBlankCell(input, r) ==
    \E c \in 1..Len(Split(DataRows(input)[r], ",")) :
        Trim(Split(DataRows(input)[r], ",")[c]) = <<>>

OffendingRows(input) ==
    {r \in 1..Len(DataRows(input)) :
        WrongColumnCount(input, r) \/ HasBlankCell(input, r)}

\* C15: parseInput throws for an input without a data row, with a data row whose
\* number of columns is not the header's or with a blank cell, the message naming
\* an offending data row counted from 1; the columns it returns all have as many
\* values as the input has data rows
C15_RejectsMalformedInput ==
    /\ (InputRead /\ DataRows(text) = <<>>) => inputPc = "thrown"
    /\ (InputRead /\ OffendingRows(text) # {}) =>
            /\ inputPc = "thrown"
            /\ \E r \in OffendingRows(text) : inputError[2] = AsString(NumberToString(r))
    /\ inputPc = "parsed" =>
            \A c \in 1..Len(parsedInput) : Len(parsedInput[c].data) = Len(DataRows(text))

\* parserService's parseInput has returned a column with a blank value
C15_BlankCellReturned ==
    /\ lineage = "services"
    /\ inputPc = "parsed"
    /\ \E c \in 1..Len(parsedInput) :
           \E r \in 1..Len(parsedInput[c].data) : parsedInput[c].data[r] = <<>>

(***************************************************************************)
(* Properties of the reading of a theoretical model                        *)
(***************************************************************************)
\* the header of the model passes the checks of lines 50-59
HeaderAccepted(model) ==
    /\ Len(ModelLines(model)) >= 2
    /\ HasProbabilityColumn(model)
    /\ ModelVarNames(model) = Names(variables)

\* the lines after the header with as many cells as the header, the rows read
RowsRead(model) ==
    SelectSeq(Tail(ModelLines(model)),
              LAMBDA line : Len(Split(line, ",")) = Len(ModelHeader(model)))

\* the cell of a row in the column 'Probability'
ProbabilityCell(model, row) == Split(row, ",")[IndexOf(ModelHeader(model), PROBABILITY) + 1]

Negative(cell) == ~IsNaN(parseFloat(cell)) /\ RLt(parseFloat(cell), Zero)

AboveOne(cell) == ~IsNaN(parseFloat(cell)) /\ RLt(One, parseFloat(cell))

\* the text is no number, or a number outside [0, 1]
NotAProbability(cell) == IsNaN(parseFloat(cell)) \/ Negative(cell) \/ AboveOne(cell)

\* C16: a model with an accepted header and a row read whose probability is not
\* a number in [0, 1] (negative, above 1 or not numeric) fails validation:
\* parseTheoreticalModel returns an error, which the model's fit records carry.
C16_ProbabilityOutsideUnitRejected ==
    Finished =>
        \A k \in 1..Len(theoreticalModels) :
            (/\ HeaderAccepted(theoreticalModels[k])
             /\ \E r \in 1..Len(RowsRead(theoreticalModels[k])) :
                    NotAProbability(ProbabilityCell(theoreticalModels[k],
                                                    RowsRead(theoreticalModels[k])[r])))
            => /\ FailsValidation(theoreticalModels[k])
               /\ \A i \in 1..Len(modelFit) :
                      modelFit[i].modelName = theoreticalModels[k].name =>
                          "error" \in DOMAIN modelFit[i]

\* a model with a probability above 1 has been read without an error and scored
C16_AboveOneScored ==
    /\ Finished
    /\ \E k \in 1..Len(theoreticalModels) :
           /\ HeaderAccepted(theoreticalModels[k])
           /\ \E r \in 1..Len(RowsRead(theoreticalModels[k])) :
                  AboveOne(ProbabilityCell(theoreticalModels[k], RowsRead(theoreticalModels[k])[r]))
           /\ ~FailsValidation(theoreticalModels[k])
           /\ \E i \in 1..Len(modelFit) :
                  /\ modelFit[i].modelName = theoreticalModels[k].name
                  /\ Metrics \subseteq DOMAIN modelFit[i]

\* the key of a row: the cells before 'Probability', joined
RowKey(model, row) ==
    Join(SubSeq(Split(row, ","), 1, IndexOf(ModelHeader(model), PROBABILITY)), Comma)

\* the probabilities of the rows read, of one key or of all
MassOfRows(model, rows) ==
    RSum([r \in 1..Len(rows) |-> parseFloat(ProbabilityCell(model, rows[r]))])

RowsOfKey(model, key) == SelectSeq(RowsRead(model), LAMBDA row : RowKey(model, row) = key)

\* C17: the parsed PMF of a model that passes validation has one entry for each
\* outcome named by a row read, whose value is the sum of the probabilities of
\* all the rows of that outcome, and its total mass is the sum of the
\* probabilities of all the rows read.
C17_DuplicateRowsAccumulate ==
    Finished =>
        \A k \in 1..Len(theoreticalModels) :
            theoreticalModels[k].id \in DOMAIN theoreticalJointPMFs =>
                /\ KeySet(theoreticalJointPMFs[theoreticalModels[k].id])
                       = {RowKey(theoreticalModels[k], RowsRead(theoreticalModels[k])[r]) :
                              r \in 1..Len(RowsRead(theoreticalModels[k]))}
                /\ \A e \in 1..Len(theoreticalJointPMFs[theoreticalModels[k].id]) :
                       theoreticalJointPMFs[theoreticalModels[k].id][e].v
                           = MassOfRows(theoreticalModels[k],
                                 RowsOfKey(theoreticalModels[k],
                                     theoreticalJointPMFs[theoreticalModels[k].id][e].k))
                /\ RSum(MapValues(theoreticalJointPMFs[theoreticalModels[k].id]))
                       = MassOfRows(theoreticalModels[k], RowsRead(theoreticalModels[k]))

\* a model with two rows of 0.25 for one outcome has been parsed, and the
\* outcome has 0.5
C17_TwoRowsAdded ==
    /\ Finished
    /\ \E k \in 1..Len(theoreticalModels) :
           /\ theoreticalModels[k].id \in DOMAIN theoreticalJointPMFs
           /\ \E e \in 1..Len(theoreticalJointPMFs[theoreticalModels[k].id]) :
                  /\ Len(RowsOfKey(theoreticalModels[k],
                                   theoreticalJointPMFs[theoreticalModels[k].id][e].k)) = 2
                  /\ theoreticalJointPMFs[theoreticalModels[k].id][e].v = <<1, 2>>

(***************************************************************************)
(* Properties of the detection of the analysis type                        *)
(***************************************************************************)
\* the cells of the first line of the input
FirstLineCells(input) == TrimAll(Split(Split(Trim(input), "\n")[1], ","))

\* Time, Instance1, ..., InstanceK in this order, K >= 1, in any case of letters
SequentialHeader(cells) ==
    /\ Len(cells) >= 2
    /\ toLowerCase(cells[1]) = <<"t", "i", "m", "e">>
    /\ \A i \in 2..Len(cells) :
           toLowerCase(cells[i])
               = <<"i", "n", "s", "t", "a", "n", "c", "e">> \o NumberToString(i - 1)

\* C18: detectAnalysisType returns 'time-series' only for an input with at least
\* one data row whose header is Time, Instance1, ..., InstanceK, numbered from 1
\* without gaps or repeats, in any case of letters; every other input is
\* 'cross-sectional'.
C18_TimeSeriesOnlyForSequentialHeader ==
    (inputPc # "idle" /\ analysisType = "time-series") =>
        /\ SequentialHeader(FirstLineCells(text))
        /\ DataRows(text) # <<>>

\* typeUtils' detectAnalysisType has called an input whose header is not
\* sequential a time series
C18_UnnumberedHeaderAccepted ==
    /\ lineage = "services"
    /\ inputPc # "idle"
    /\ analysisType = "time-series"
    /\ ~SequentialHeader(FirstLineCells(text))

(***************************************************************************)
(* Properties of the weak stationarity series                              *)
(***************************************************************************)
\* the numbers among the values of the instances at step t (1-based)
NumbersAt(t) ==
    SelectSeq([i \in 1..Len(instanceData) |-> ToNumber(instanceData[i][t])],
              LAMBDA v : ~IsNaN(v))

ArithmeticMean(nums) == RDiv(RSum(nums), <<Len(nums), 1>>)

SquaredDeviations(nums, mean) ==
    RSum([i \in 1..Len(nums) |-> RMul(RSub(nums[i], mean), RSub(nums[i], mean))])

\* C19: when the analysis has returned, weakStationarity.mean and .variance hold
\* one entry per time step, in the order of the time labels; for a step with
\* k >= 2 numbers the entries are their arithmetic mean and the sum of their
\* squared deviations from it divided by k - 1; for a step without a number
\* both entries are NaN; and the analysis of a rectangular panel does not throw.
C19_WeakStationaritySeries ==
    /\ (tsPc = "thrown") => ~RectangularPanel
    /\ (tsPc = "done") =>
           /\ weakStationarity.timeLabels = timeLabels
           /\ Len(weakStationarity.mean) = NumTimeSteps
           /\ Len(weakStationarity.variance) = NumTimeSteps
           /\ \A t \in 1..NumTimeSteps :
                  /\ Len(NumbersAt(t)) >= 2 =>
                         /\ weakStationarity.mean[t] = ArithmeticMean(NumbersAt(t))
                         /\ weakStationarity.variance[t]
                                = RDiv(SquaredDeviations(NumbersAt(t), ArithmeticMean(NumbersAt(t))),
                                       <<Len(NumbersAt(t)) - 1, 1>>)
                  /\ Len(NumbersAt(t)) = 0 =>
                         /\ IsNaN(weakStationarity.mean[t])
                         /\ IsNaN(weakStationarity.variance[t])

\* the analysis has returned for a panel with a step without a number and a
\* step with three numbers that are not all equal
C19_NaNStepAndSpreadStep ==
    /\ tsPc = "done"
    /\ \E t \in 1..NumTimeSteps : Len(NumbersAt(t)) = 0 /\ IsNaN(weakStationarity.mean[t])
    /\ \E t \in 1..NumTimeSteps :
           /\ Len(NumbersAt(t)) = 3
           /\ weakStationarity.variance[t] = <<1, 3>>

(***************************************************************************)
(* Properties of the Markov approximation                                  *)
(***************************************************************************)
ApproximationPMF == markovianFit.markovApproximationPMF

\* all sequences of numTimeSteps states of the state space
AllSequences == [1..NumTimeSteps -> {stateSpace[i] : i \in 1..Len(stateSpace)}]

RECURSIVE ChainWeight(_, _)
\* initialStatePMF(x1) times the representativeTPM(x[u-1] -> x[u]) for u = 2..t
ChainWeight(states, t) ==
    IF t = 1 THEN MapGet0(markovianFit.initialStatePMF, states[1])
    ELSE RMul(ChainWeight(states, t - 1),
              TPMGet0(representativeTPM, states[t - 1], states[t]))

\* the weight of the sequence an entry of the approximation stands for
WeightOfEntry(e) ==
    ChainWeight(Split(ApproximationPMF[e].k, ","), Len(Split(ApproximationPMF[e].k, ",")))

\* an entry of the approximation whose sequence has a weight other than 0
WeightedEntry == CHOOSE a \in 1..Len(ApproximationPMF) : WeightOfEntry(a) # Zero

\* the entries are to the weights of their sequences as the entry ref is to its
\* weight, which is not 0
ProportionalTo(ref, weight) ==
    /\ ApproximationPMF[ref].v # Zero
    /\ \A b \in 1..Len(ApproximationPMF) :
           RMul(ApproximationPMF[b].v, weight)
               = RMul(ApproximationPMF[ref].v, WeightOfEntry(b))

\* C20: the Markov approximation of a panel with an instance and a time step has
\* exactly one entry for every sequence of the state space of the panel's
\* length, the entries are proportional by one common factor to the initial
\* probability of the first state times the representative transition
\* probabilities along the sequence, and they add up to 1 within 1e-5.
C20_MarkovApproximation ==
    MarkovFitted =>
        /\ Len(ApproximationPMF) = Cardinality(AllSequences)
        /\ KeySet(ApproximationPMF) = {Join(s, Comma) : s \in AllSequences}
        /\ \E a \in 1..Len(ApproximationPMF) : WeightOfEntry(a) # Zero
        /\ ProportionalTo(WeightedEntry, WeightOfEntry(WeightedEntry))
        /\ ~RGtInv(RAbs(RSub(RSum(MapValues(ApproximationPMF)), One)), InvEps5)

\* the approximation holds sequences that no instance went through, and its
\* entries are the weights divided by their sum, which is not 1
C20_UnobservedAndRescaled ==
    /\ MarkovFitted
    /\ Len(ApproximationPMF) > Len(markovianFit.fullHistoryPMF)
    /\ \E a \in 1..Len(ApproximationPMF) :
           /\ ApproximationPMF[a].v # Zero
           /\ ApproximationPMF[a].v # WeightOfEntry(a)

(***************************************************************************)
(* Properties of the time-averaged TPM                                     *)
(***************************************************************************)
Averaged == tsPc \in {"averaged", "fitted", "done"}

\* the sum of the r-th row of a TPM
RowSum(tpm, r) == RSum(MapValues(tpm[r].v))

\* C21: for a panel with at least two time steps, every from-state row of the
\* time-averaged TPM adds up to 1.
C21_AverageRowsSumToOne ==
    (Averaged /\ NumTimeSteps >= 2) =>
        \A r \in 1..Len(average_tpm_firstOrder.tpm) :
            RowSum(average_tpm_firstOrder.tpm, r) = One

\* the time average of step TPMs whose rows all add up to 1 has a row that
\* adds up to less than 1: its from-state is missing at some step
C21_AverageRowBelowOne ==
    /\ Averaged
    /\ NumTimeSteps >= 2
    /\ \A t \in 1..Len(tpms_firstOrder) :
           \A r \in 1..Len(tpms_firstOrder[t].tpm) : RowSum(tpms_firstOrder[t].tpm, r) = One
    /\ \E r \in 1..Len(average_tpm_firstOrder.tpm) :
           /\ RLt(RowSum(average_tpm_firstOrder.tpm, r), One)
           /\ \E t \in 1..Len(tpms_firstOrder) :
                  ~MapHas(tpms_firstOrder[t].tpm, average_tpm_firstOrder.tpm[r].k)

(***************************************************************************)
(* Properties of the application                                           *)
(***************************************************************************)
\* the names of the variables that an input text gives a cross-sectional analysis
VariableNamesOf(input) ==
    IF analysisService_detectAnalysisType(input) = "cross-sectional"
    THEN [i \in 1..Len(analysisService_parseInput(input)) |->
             analysisService_parseInput(input)[i].name]
    ELSE <<>>

JointKeys(model, names) ==
    {Join(JointStateSpace(model, names)[s], Comma) :
        s \in 1..Len(JointStateSpace(model, names))}

\* the table of the model has a probability for every joint state of the
\* variables, and for nothing else
FullyPopulated(model, names) ==
    /\ Len(names) > 0
    /\ Len(JointStateSpace(model, names)) > 0
    /\ KeySet(model.jointProbabilities) = JointKeys(model, names)

SumOffOne(model) ==
    ~RLtInv(RAbs(RSub(SumOfNumbers(MapValues(model.jointProbabilities)), One)), InvEps5)

BadModel(model, names) == FullyPopulated(model, names) /\ SumOffOne(model)

\* C22: whenever a model's table is fully populated for the variables of the
\* input text and its sum differs from 1 by 1e-5 or more, the Analyze button is
\* disabled.
C22_BadModelDisablesAnalyze ==
    (\E m \in 1..Len(app_theoreticalModels) :
         BadModel(app_theoreticalModels[m], VariableNamesOf(inputText)))
        => ~AnalyzeEnabled

\* an analysis of the loaded dataset is under way with a model whose table is
\* full for the variables of that dataset and sums to 0.5
C22_AnalysisStartedWithBadModel ==
    /\ pendingAnalyze = <<TextAB>>
    /\ inputText = TextAB
    /\ \E m \in 1..Len(app_theoreticalModels) :
           /\ BadModel(app_theoreticalModels[m], VariableNamesOf(TextAB))
           /\ SumOfNumbers(MapValues(app_theoreticalModels[m].jointProbabilities)) = <<1, 2>>

\* the input text is the content of the stored dataset: the user does not type
\* that text, so it has been loaded and not edited since
DatasetLoaded == inputText = TextAB

\* C23: after loadDataset the results stay cleared until the next click on
\* Analyze: while the loaded text is the input text, no results of another
\* text are shown.
C23_NoResultsOfPreviousText ==
    DatasetLoaded =>
        /\ crossSectionalResults \in {Null, <<FullResults(TextAB)>>}
        /\ timeSeriesResults = Null

\* the computation of a click made on the panel text has ended after the
\* dataset was loaded: the panel's results are shown over the loaded text
C23_PanelResultsOverLoadedText ==
    /\ DatasetLoaded
    /\ ~isLoading
    /\ analysisMode = <<"time-series">>
    /\ timeSeriesResults = <<PanelResults(TextPanel)>>

\* C24: once a model's table has an entry, its key set is the cartesian product
\* of the state spaces declared for the data's variables (no key at all when
\* the state space of some variable is empty).
C24_KeysAreTheJointStates ==
    Len(dataVariableNames) > 0 =>
        \A m \in 1..Len(app_theoreticalModels) :
            Len(app_theoreticalModels[m].jointProbabilities) > 0 =>
                KeySet(app_theoreticalModels[m].jointProbabilities)
                    = JointKeys(app_theoreticalModels[m], dataVariableNames)

\* one probability edit on the initial model: the table holds one key of the
\* two joint states of A and B
C24_OneKeyOfTwo ==
    /\ dataVariableNames = << <<"A">>, <<"B">> >>
    /\ Len(app_theoreticalModels) = 1
    /\ app_theoreticalModels[1].stateSpaces = InitialModel.stateSpaces
    /\ JointKeys(app_theoreticalModels[1], dataVariableNames)
           = {<<"1", ",", "x">>, <<"1", ",", "y">>}
    /\ app_theoreticalModels[1].jointProbabilities
           = << [k |-> <<"1", ",", "x">>, v |-> <<"0", ".", "5">>] >>

\* the analysis of the text throws: no data row under the header, or a panel
\* row that lacks a cell
Throwing(input) ==
    IF analysisService_detectAnalysisType(input) = "cross-sectional"
    THEN NoDataFound(input)
    ELSE ~CellsPresent(input)

AtMostOneResult == crossSectionalResults = Null \/ timeSeriesResults = Null

ResultsMatchMode ==
    /\ crossSectionalResults # Null => analysisMode = <<"cross-sectional">>
    /\ timeSeriesResults # Null => analysisMode = <<"time-series">>

\* the step in which a computation that throws ends
ThrowingAnalysisEnds ==
    /\ pendingAnalyze # Null
    /\ pendingAnalyze' = Null
    /\ Throwing(pendingAnalyze[1])

ErrorAndNothingElse ==
    /\ error # Null
    /\ analysisMode = Null
    /\ crossSectionalResults = Null
    /\ timeSeriesResults = Null

\* C30: the two results are never both held; a result is held only under its
\* own analysisMode; the end of an analysis that throws leaves the error set
\* and analysisMode and both results null; and after every click on Analyze
\* isLoading returns to false.
C30_ResultStateConsistent ==
    /\ [](AtMostOneResult /\ ResultsMatchMode)
    /\ [][ThrowingAnalysisEnds => ErrorAndNothingElse']_vars
    /\ (isLoading ~> ~isLoading)

\* the analysis of the header-only text has thrown and ended
C30_AnalysisThrewAndEnded ==
    /\ ~isLoading
    /\ error = <<"No data found. Please ensure the input has a header and data rows.">>
    /\ ErrorAndNothingElse
    /\ inputText = TextHeaderOnly

(***************************************************************************)
(* Properties of the model-fit comparison                                  *)
(***************************************************************************)
Rendered == pc = "rendered"

\* the names of the models whose fit record carries an error
InvalidNames == {modelFit[i].modelName : i \in {j \in 1..Len(modelFit) : "error" \in DOMAIN modelFit[j]}}

\* C25: a model whose fit record carries an error is the winner of no metric
\* and is not the overall winner, whatever the list of fit records.
C25_InvalidModelNeverWins ==
    (Rendered /\ analysis # Null) =>
        /\ \A metric \in DOMAIN analysis[1].winnersByMetric :
               analysis[1].winnersByMetric[metric] \notin InvalidNames
        /\ analysis[1].overallWinner \notin InvalidNames

\* the only model failed validation and is the overall winner
C25_OnlyModelInvalidWins ==
    /\ Rendered
    /\ Len(modelFit) = 1
    /\ "error" \in DOMAIN modelFit[1]
    /\ analysis # Null
    /\ DOMAIN analysis[1].winnersByMetric = {}
    /\ analysis[1].overallWinner = modelFit[1].modelName

(***************************************************************************)
(* Properties of the homogeneity decision                                  *)
(***************************************************************************)
FromStatesOfStep(t) == KeySet(tpms_firstOrder[t].tpm)

\* C26: when the check of two or more step TPMs reports isHomogeneous, every
\* step TPM has the from-states of the first one.
C26_HomogeneousHasSameFromStates ==
    (HomogeneityChecked /\ Len(tpms_firstOrder) >= 2 /\ homogeneityCheck.isHomogeneous) =>
        \A t \in 1..Len(tpms_firstOrder) : FromStatesOfStep(t) = FromStatesOfStep(1)

\* three step TPMs with the two from-states each, reported homogeneous, and
\* not all of them equal
C26_HomogeneousOverTwoFromStates ==
    /\ HomogeneityChecked
    /\ Len(tpms_firstOrder) = 3
    /\ homogeneityCheck.isHomogeneous
    /\ \A t \in 1..3 : Cardinality(FromStatesOfStep(t)) = 2
    /\ tpms_firstOrder[1].tpm # tpms_firstOrder[2].tpm


(***************************************************************************)
(* Properties of the pairwise metrics                                      *)
(***************************************************************************)
\* a metric that is omitted, or a number other than NaN
PresentMetricFinite(m) == IF m = Undefined THEN TRUE ELSE ~IsNaN(m)

\* the columns of the pair hold text that is no number under a Numerical tag
NonNumericUnderNumericalTag(p) ==
    \E j \in 1..Len(variables) :
        /\ variables[j].id \in {pairwise[p].var1_id, pairwise[p].var2_id}
        /\ variables[j].type = "Numerical"
        /\ detectVariableType(variables[j].data) # "Numerical"

\* C27: whatever the type tags of the variables, every pairwise metric present
\* in the report (Pearson correlation, distance correlation, Cramer's V; the
\* mutual information is a fixed-point number by construction) is a finite
\* number, never NaN.
C27_PairwiseMetricsFinite ==
    pc \in {"models", "done"} =>
        \A p \in 1..Len(pairwise) :
            /\ PresentMetricFinite(pairwise[p].empirical.pearsonCorrelation)
            /\ PresentMetricFinite(pairwise[p].empirical.distanceCorrelation)
            /\ PresentMetricFinite(pairwise[p].empirical.cramersV)

\* a report whose Pearson correlation is NaN: a column tagged Numerical holds
\* text that is no number
C27_PearsonIsNaN ==
    /\ pc = "done"
    /\ \E p \in 1..Len(pairwise) :
           /\ pairwise[p].empirical.pearsonCorrelation = NaN
           /\ NonNumericUnderNumericalTag(p)

(***************************************************************************)
(* Properties of the reported distributions                                *)
(***************************************************************************)
\* the empirical distribution the report holds for the j-th variable
ReportedDistribution(j) == single_vars[variables[j].id].empirical.pmf

\* entry i comes before entry i + 1 in the order of the type
InTypeOrder(distribution, type, ordinalOrder) ==
    \A i \in 1..(Len(distribution) - 1) :
        IF type = "Numerical"
        THEN RLe(distribution[i].value, distribution[i + 1].value)
        ELSE IF type = "Ordinal" /\ Len(ordinalOrder) > 0
        THEN IndexOf(ordinalOrder, distribution[i].value)
                 <= IndexOf(ordinalOrder, distribution[i + 1].value)
        ELSE StrLess(distribution[i].value, distribution[i + 1].value)

\* each cumulative value is the sum of the probabilities up to its entry
CumulativeIsRunningSum(distribution) ==
    \A i \in 1..Len(distribution) :
        distribution[i].cumulative
            = RSum([k \in 1..i |-> distribution[k].probability])

\* C28: pmfToDistribution returns its entries in the type order of the variable
\* whatever the insertion order of the PMF (ascending numbers for Numerical, the
\* declared order for Ordinal, ascending strings for Nominal), and each
\* cumulative value is the running sum of the probabilities in that order.
C28_DistributionInTypeOrder ==
    pc \in {"models", "done"} =>
        \A j \in 1..Len(variables) :
            /\ InTypeOrder(ReportedDistribution(j), variables[j].type,
                           variables[j].ordinalOrder)
            /\ CumulativeIsRunningSum(ReportedDistribution(j))

\* a finished report whose Nominal distribution is in insertion order, the
\* greater string first
C28_NominalInInsertionOrder ==
    /\ pc = "done"
    /\ \E j \in 1..Len(variables) :
           /\ variables[j].type = "Nominal"
           /\ Len(ReportedDistribution(j)) = 2
           /\ ReportedDistribution(j)[1].value = variables[j].data[1]
           /\ StrLess(ReportedDistribution(j)[2].value, ReportedDistribution(j)[1].value)
           /\ CumulativeIsRunningSum(ReportedDistribution(j))


(***************************************************************************)
(* Properties of the conditional MSE                                       *)
(***************************************************************************)
\* the model a fit record belongs to
ModelOfFit(i) ==
    theoreticalModels[CHOOSE k \in 1..Len(theoreticalModels) :
                          theoreticalModels[k].name = modelFit[i].modelName]

\* the (target, given) index pairs with a numerical target and a categorical given
NumericalGivenCategorical ==
    {tg \in (1..Len(variables)) \X (1..Len(variables)) :
        /\ tg[1] # tg[2]
        /\ variables[tg[1]].type = "Numerical"
        /\ IsCategorical(variables[tg[2]])}

\* the data rows whose given value is c
RowsWith(givenVar, c) == {k \in 1..Len(givenVar.data) : givenVar.data[k] = c}

\* the conditionals of the target given the given variable the report holds for
\* the model
ReportedConditionals(model, targetVar, givenVar) ==
    conditional[PairKey(targetVar, givenVar)].theoretical[model.id][givenVar.name]

\* the model's conditional mean of the target given c
ModelConditionalMean(model, targetVar, givenVar, c) ==
    ReportedConditionals(model, targetVar, givenVar)[
        CHOOSE n \in 1..Len(ReportedConditionals(model, targetVar, givenVar)) :
            ReportedConditionals(model, targetVar, givenVar)[n].conditionValue = c].mean

\* the mean over the rows with given value c of (target - conditional mean)^2
MeanSquaredErrorOver(targetVar, givenVar, c, mean) ==
    RDiv(RSum([k \in 1..Len(targetVar.data) |->
                  IF givenVar.data[k] = c
                  THEN Squared(RSub(ToNumber(targetVar.data[k]), mean))
                  ELSE Zero]),
         <<Cardinality(RowsWith(givenVar, c)), 1>>)

ExpectedConditionMSE(model, targetVar, givenVar, c) ==
    MeanSquaredErrorOver(targetVar, givenVar, c,
                         ModelConditionalMean(model, targetVar, givenVar, c))

\* the sum over the observed condition values of (share of the rows with the
\* value) x (per-condition MSE)
ExpectedCumulativeMSE(model, targetVar, givenVar) ==
    RSum([n \in 1..Len(Dedup(givenVar.data)) |->
             RMul(Rat(Cardinality(RowsWith(givenVar, Dedup(givenVar.data)[n])),
                      Len(givenVar.data)),
                  ExpectedConditionMSE(model, targetVar, givenVar,
                                       Dedup(givenVar.data)[n]))])

PerConditionKey(targetVar, givenVar, c) == <<"MSE", targetVar.name, givenVar.name, c>>

CumulativeKey(targetVar, givenVar) == <<"Cumulative MSE", targetVar.name, givenVar.name>>

\* the per-condition MSE of every observed condition value is the mean over its rows
PerConditionMSEsMatch(mse, model, targetVar, givenVar) ==
    \A n \in 1..Len(givenVar.data) :
        /\ PerConditionKey(targetVar, givenVar, givenVar.data[n]) \in DOMAIN mse
        /\ mse[PerConditionKey(targetVar, givenVar, givenVar.data[n])]
               = ExpectedConditionMSE(model, targetVar, givenVar, givenVar.data[n])

\* C29: for every valid model and every (numerical target, categorical given)
\* pair, the per-condition MSE of condition value c is the mean, over exactly the
\* rows whose given value is c, of (target - the model's conditional mean given
\* c)^2, and the cumulative MSE of the pair is the sum over the observed c of
\* (empirical marginal probability of c) x (per-condition MSE of c).
C29_ConditionalMSEPerRowsOfCondition ==
    Finished =>
        \A i \in 1..Len(modelFit) :
            "mse" \in DOMAIN modelFit[i] =>
                \A tg \in NumericalGivenCategorical :
                    /\ PerConditionMSEsMatch(modelFit[i].mse, ModelOfFit(i),
                                             variables[tg[1]], variables[tg[2]])
                    /\ CumulativeKey(variables[tg[1]], variables[tg[2]])
                           \in DOMAIN modelFit[i].mse
                    /\ modelFit[i].mse[CumulativeKey(variables[tg[1]], variables[tg[2]])]
                           = ExpectedCumulativeMSE(ModelOfFit(i), variables[tg[1]],
                                                   variables[tg[2]])

\* a valid model that predicts every row of a pair exactly: the per-condition MSEs
\* are reported as 0 and the report holds no cumulative MSE of the pair
C29_PerfectFitHasNoCumulativeMSE ==
    /\ Finished
    /\ \E i \in 1..Len(modelFit) :
           /\ "mse" \in DOMAIN modelFit[i]
           /\ \E tg \in NumericalGivenCategorical :
                  /\ PerConditionMSEsMatch(modelFit[i].mse, ModelOfFit(i),
                                           variables[tg[1]], variables[tg[2]])
                  /\ ExpectedCumulativeMSE(ModelOfFit(i), variables[tg[1]],
                                           variables[tg[2]]) = Zero
                  /\ CumulativeKey(variables[tg[1]], variables[tg[2]])
                         \notin DOMAIN modelFit[i].mse
====
